---- MODULE Spec2Model ----
(***************************************************************************)
(* Download orchestration and fallback policy of the Instagram media       *)
(* downloader: the two engine adapters (src/agents), the local transcriber *)
(* (src/core/transcriber.py), the desktop worker thread with its main      *)
(* window handlers, and the three web shells that repeat the same policy.  *)
(*                                                                         *)
(* Texts are sequences of string tokens: an f-string is the concatenation  *)
(* of its parts, str(e) is the token sequence of the exception.            *)
(***************************************************************************)
EXTENDS Naturals, Sequences, FiniteSets, TLC

\* ------------------------------------------------------------------------
\* Bounds
\* ------------------------------------------------------------------------
\* number of items in the queue of a batch run
NumItems == 2

\* number of failures the environment injects during one run
MaxFaults == 2

\* number of queued signals beyond which the worker waits for the main window
MaxQueue == 1

\* ------------------------------------------------------------------------
\* Options, environment, results
\* ------------------------------------------------------------------------
Engines == {"Instaloader", "yt-dlp"}

\* the download_options dictionary built by the shells
OptionSets ==
    [video: BOOLEAN, thumbnail: BOOLEAN, audio: BOOLEAN, caption: BOOLEAN,
     transcribe: BOOLEAN, downloader: Engines]

\* What the network, the external tools and the file system do during one
\* adapter call.  avail: Post.from_shortcode / yt-dlp.exe is usable;
\* video: the video transfer succeeds; meta: yt-dlp --dump-json succeeds;
\* thumbUrl: the post or the metadata names a thumbnail URL; thumb: the
\* thumbnail transfer succeeds; caption: the caption file can be written;
\* audio: moviepy (and ffmpeg) extract an audio track.
EngineEnv ==
    [avail: BOOLEAN, video: BOOLEAN, meta: BOOLEAN, thumbUrl: BOOLEAN,
     thumb: BOOLEAN, caption: BOOLEAN, audio: BOOLEAN]

\* the option sets of the runs of a shell: the thumbnail and the caption
\* switch are set together (the adapter specification takes every combination)
RunOptionSets == {o \in OptionSets : o.thumbnail = o.caption}

EmptyResult == [k \in {} |-> 0]

Put(r, k, v) == [x \in (DOMAIN r) \cup {k} |-> IF x = k THEN v ELSE r[x]]

Has(r, k) == k \in DOMAIN r

\* number of failures in an environment record
Faults(env) == Cardinality({f \in DOMAIN env : ~env[f]})

\* the outcomes op(env) of a call over the environments of envs that inject at
\* most budget failures, each with the least number of failures producing it
Affordable(envs, budget) == {x \in envs : Faults(x) <= budget}

Outcomes(all) ==
    {o \in all : \A o2 \in all : o2.out = o.out => o2.cost >= o.cost}

\* a progress event (url, percent, status); url = 0 is the empty string,
\* url = n is the URL of the n-th item
Ev(u, p, s) == [url |-> u, percent |-> p, status |-> s]

\* every item writes into the folder of the first item
File_shared(n, kind) == <<1, kind>>

\* a file of reel folder n: reel{n}/{kind}{n}.*
File(n, kind) == <<n, kind>>

\* ------------------------------------------------------------------------
\* src/agents/instaloader.py
\* ------------------------------------------------------------------------
\* Each helper maps the call state [result, disk, progress, raised, error]
\* to the call state after the helper.
\* a video helper that swallows the transfer failure
instaloader_download_video_swallowing(st, n, options, env) ==
    IF (options.video \/ options.audio \/ options.transcribe) /\ env.video
    THEN [st EXCEPT !.progress = Append(@, Ev(0, 20, <<"Downloading video...">>)),
                    !.disk = @ \cup {File(n, "video")},
                    !.result = IF options.video
                               THEN Put(@, "video_path", File(n, "video"))
                               ELSE @]
    ELSE st

instaloader_download_video(st, n, options, env) ==
    IF options.video \/ options.audio \/ options.transcribe
    THEN LET st1 == [st EXCEPT !.progress = Append(@, Ev(0, 20, <<"Downloading video...">>))]
         IN IF env.video
            THEN [st1 EXCEPT !.disk = @ \cup {File(n, "video")},
                             !.result = IF options.video
                                        THEN Put(@, "video_path", File(n, "video"))
                                        ELSE @]
            ELSE [st1 EXCEPT !.raised = TRUE,
                             !.error = <<"Video download failed: ", "transfer error">>]
    ELSE st

instaloader_download_thumbnail(st, n, options, env) ==
    IF ~options.thumbnail
    THEN st
    ELSE LET st1 == [st EXCEPT !.progress = Append(@, Ev(0, 40, <<"Downloading thumbnail.">>))]
         IN IF ~env.thumbUrl
            THEN [st1 EXCEPT !.raised = TRUE,
                             !.error = <<"Cannot find thumbnail URL on Post object">>]
            ELSE IF env.thumb
                 THEN [st1 EXCEPT !.disk = @ \cup {File(n, "thumbnail")},
                                  !.result = Put(@, "thumbnail_path", File(n, "thumbnail"))]
                 ELSE st1

instaloader_extract_audio(st, n, options, env) ==
    IF ~options.audio
    THEN st
    ELSE LET st1 == [st EXCEPT !.progress = Append(@, Ev(0, 60, <<"Extracting audio...">>))]
         IN IF File(n, "video") \notin st1.disk
            THEN st1
            ELSE IF env.audio
                 THEN [st1 EXCEPT !.disk = @ \cup {File(n, "audio")},
                                  !.result = Put(@, "audio_path", File(n, "audio"))]
                 ELSE st1

instaloader_save_caption(st, n, options, env) ==
    IF options.caption
    THEN LET st1 == [st EXCEPT !.progress = Append(@, Ev(0, 80, <<"Getting caption...">>)),
                               !.result = Put(@, "caption", <<"caption text">>)]
         IN IF env.caption
            THEN [st1 EXCEPT !.disk = @ \cup {File(n, "caption")},
                             !.result = Put(@, "caption_path", File(n, "caption"))]
            ELSE st1
    ELSE st

\* run the next helper unless an earlier one raised
Then(st, next) == IF st.raised THEN st ELSE next

instaloader_download_reel(n, loader, options, env, disk) ==
    LET st0 == [result |-> EmptyResult, disk |-> disk, progress |-> <<>>,
                raised |-> FALSE, error |-> <<>>]
        body ==
          IF ~loader
          THEN [st0 EXCEPT !.raised = TRUE, !.error = <<"Instaloader not initialized">>]
          ELSE LET s1 == [st0 EXCEPT !.progress = Append(@, Ev(n, 10, <<"Fetching reel data...">>))]
               IN IF ~env.avail
                  THEN [s1 EXCEPT !.raised = TRUE, !.error = <<"post metadata error">>]
                  ELSE LET s2 == [s1 EXCEPT !.result = Put(@, "folder_path", File(n, "folder"))]
                           s3 == instaloader_download_video(s2, n, options, env)
                           s4 == Then(s3, instaloader_download_thumbnail(s3, n, options, env))
                           s5 == Then(s4, instaloader_extract_audio(s4, n, options, env))
                           s6 == Then(s5, instaloader_save_caption(s5, n, options, env))
                       IN Then(s6, [s6 EXCEPT
                                      !.result = Put(@, "title", <<"Reel ", n>>),
                                      !.progress = Append(@, Ev(n, 100, <<"Completed">>))])
    IN IF body.raised
       THEN [body EXCEPT !.error = <<"Instaloader download error: ">> \o @,
                         !.result = EmptyResult]
       ELSE body

\* ------------------------------------------------------------------------
\* src/agents/yt_dlp.py
\* ------------------------------------------------------------------------
yt_dlp_extract_audio(st, n, options, env) ==
    IF ~options.audio
    THEN st
    ELSE LET st1 == [st EXCEPT !.progress = Append(@, Ev(0, 60, <<"Extracting audio...">>))]
         IN IF File(n, "video") \notin st1.disk
            THEN st1
            ELSE IF env.audio
                 THEN [st1 EXCEPT !.disk = @ \cup {File(n, "audio")},
                                  !.result = Put(@, "audio_path", File(n, "audio"))]
                 ELSE st1

yt_dlp_thumbnail(st, n, options, env) ==
    IF options.thumbnail /\ env.thumbUrl
    THEN IF env.thumb
         THEN [st EXCEPT !.disk = @ \cup {File(n, "thumbnail")},
                         !.result = Put(@, "thumbnail_path", File(n, "thumbnail"))]
         ELSE [st EXCEPT !.raised = TRUE, !.error = <<"thumbnail transfer error">>]
    ELSE st

yt_dlp_caption(st, n, options, env) ==
    IF options.caption
    THEN IF env.caption
         THEN [st EXCEPT !.disk = @ \cup {File(n, "caption")},
                         !.result = Put(Put(@, "caption_path", File(n, "caption")),
                                        "caption", <<"caption text">>)]
         ELSE [st EXCEPT !.raised = TRUE, !.error = <<"caption file write error">>]
    ELSE st

yt_dlp_download_reel(n, options, env, disk) ==
    LET st0 == [result |-> Put(EmptyResult, "folder_path", File(n, "folder")),
                disk |-> disk, progress |-> <<>>, raised |-> FALSE, error |-> <<>>]
        body ==
          IF ~env.avail
          THEN [st0 EXCEPT !.raised = TRUE, !.error = <<"yt-dlp.exe not found">>]
          ELSE LET s1 == [st0 EXCEPT !.progress = Append(@, Ev(n, 10, <<"Downloading with yt-dlp...">>))]
               IN IF ~env.video
                  THEN [s1 EXCEPT !.raised = TRUE, !.error = <<"yt-dlp returned non-zero exit status">>]
                  ELSE LET s2 == [s1 EXCEPT !.disk = @ \cup {File(n, "video")},
                                            !.result = Put(@, "video_path", File(n, "video"))]
                       IN IF ~env.meta
                          THEN [s2 EXCEPT !.raised = TRUE, !.error = <<"yt-dlp --dump-json failed">>]
                          ELSE LET s3 == yt_dlp_thumbnail(s2, n, options, env)
                                   s4 == Then(s3, yt_dlp_caption(s3, n, options, env))
                                   s5 == Then(s4, IF options.audio
                                                  THEN yt_dlp_extract_audio(s4, n, options, env)
                                                  ELSE s4)
                               IN Then(s5, [s5 EXCEPT
                                              !.result = Put(@, "title", <<"metadata title", n>>),
                                              !.progress = Append(@, Ev(n, 100, <<"Completed">>))])
    IN IF body.raised THEN [body EXCEPT !.result = EmptyResult] ELSE body

\* the adapter call the shells make for engine e
download_reel(e, n, loader, options, env, disk) ==
    IF e = "Instaloader"
    THEN instaloader_download_reel(n, loader, options, env, disk)
    ELSE yt_dlp_download_reel(n, options, env, disk)

\* ------------------------------------------------------------------------
\* src/core/transcriber.py and src/core/groq_transcriber.py
\* ------------------------------------------------------------------------
\* What happens during one transcription call.  returns: no exception escapes
\* the method; load: load_whisper_model, when called now, loads the model;
\* tempAudio: the temporary extraction from the video yields a
\* file; ffmpeg: the ffmpeg check passes; whisper: the speech-to-text call
\* and the writing of the transcript file succeed.
TransEnv ==
    [returns: BOOLEAN, load: BOOLEAN, tempAudio: BOOLEAN, ffmpeg: BOOLEAN, whisper: BOOLEAN]

ModelNotLoaded == <<"Transcription skipped: Whisper model not loaded.">>
NoAudioSource == <<"Transcription failed: No audio source found.">>
NoAudioFile == <<"Transcription skipped: No audio file found">>
TranscriptText == <<"transcript text">>

\* AudioTranscriber._extract_temp_audio: is there an audio source after the
\* temporary extraction
extract_temp_audio(n, result, tenv, disk) ==
    File(n, "video") \in disk /\ tenv.tempAudio

\* AudioTranscriber.transcribe_audio_from_reel
transcribe_audio_from_reel(whisper_model, n, result, tenv, disk) ==
    LET st0 == [result |-> result, disk |-> disk, raised |-> FALSE, error |-> <<>>]
    IN IF ~whisper_model
       THEN [st0 EXCEPT !.result = Put(@, "transcript", ModelNotLoaded)]
       ELSE IF ~tenv.returns
       THEN [st0 EXCEPT !.raised = TRUE, !.error = <<"transcriber error">>]
       ELSE LET audio_source == IF Has(result, "audio_path")
                                THEN File(n, "audio") \in disk
                                ELSE extract_temp_audio(n, result, tenv, disk)
            IN IF ~audio_source
               THEN [st0 EXCEPT !.result = Put(@, "transcript", NoAudioSource)]
               ELSE IF ~tenv.ffmpeg
               THEN [st0 EXCEPT !.result = Put(@, "transcript",
                                               <<"FFmpeg setup failed: ", "ffmpeg error">>)]
               ELSE IF ~tenv.whisper
               THEN [st0 EXCEPT !.result = Put(@, "transcript",
                                               <<"Transcription failed: ", "whisper error">>)]
               ELSE [st0 EXCEPT !.result = Put(Put(@, "transcript", TranscriptText),
                                               "transcript_path", File(n, "transcript")),
                                !.disk = @ \cup {File(n, "transcript")}]

\* GroqTranscriber.transcribe_audio_from_reel
groq_transcribe_audio_from_reel(n, result, tenv, disk) ==
    LET st0 == [result |-> result, disk |-> disk, raised |-> FALSE, error |-> <<>>]
    IN IF ~tenv.returns
       THEN [st0 EXCEPT !.raised = TRUE, !.error = <<"transcriber error">>]
       ELSE IF ~(Has(result, "audio_path") /\ File(n, "audio") \in disk)
       THEN [st0 EXCEPT !.result = Put(Put(@, "transcript", NoAudioFile),
                                       "transcript_error", NoAudioFile)]
       ELSE IF ~tenv.whisper
       THEN [st0 EXCEPT !.result =
                Put(Put(@, "transcript", <<"Transcription failed: ", "pipeline error">>),
                    "transcript_error", <<"Transcription failed: ", "pipeline error">>)]
       ELSE [st0 EXCEPT !.result =
                Put(Put(Put(@, "transcript", TranscriptText), "raw_transcript", TranscriptText),
                    "transcript_path", File(n, "transcript")),
                        !.disk = @ \cup {File(n, "transcript")}]

\* ------------------------------------------------------------------------
\* The shells and their state
\* ------------------------------------------------------------------------
\* ReelDownloader: the desktop worker thread (src/core/downloader.py) with
\* the main window; the other three are the web shells.
Shells == {"ReelDownloader", "StreamlitDownloader", "APIDownloader", "BatchDownloader"}

\* the desktop queue and the batch dashboard take a list of URLs, the other
\* two shells one URL per call
Count(sh) == IF sh \in {"ReelDownloader", "BatchDownloader"} THEN NumItems ELSE 1

VARIABLES
    shell,          \* which shell runs
    options,        \* download_options
    hinglish,       \* options["enable_hinglish"] (REST shell only)
    pc,             \* position of the worker
    idx,            \* loop variable i of the worker (reel number)
    is_running,     \* ReelDownloader.is_running
    loader,         \* the Instaloader instance exists
    whisper_model,  \* AudioTranscriber.whisper_model is loaded
    result,         \* result dictionary of the item in flight
    primary_error,  \* exception of the primary attempt
    disk,           \* files of the session folder
    signals,        \* Qt signals queued from the worker to the main window
    reel_queue,     \* MainWindow.reel_queue: the ReelItem objects
    report,         \* what the worker reported for each item
    run_error,      \* error of the run as a whole
    summary,        \* the run-level summary, once computed
    calls,          \* history: engine invocations per item
    tcalls,         \* history: transcription invocations per item
    trace,          \* history: item starts and ends in worker order
    faults,         \* history: failures injected so far
    call,           \* the adapter call under study (adapter specification)
    url,            \* the text handed to is_valid_instagram_url
    verdict,        \* what is_valid_instagram_url did with it
    session_folder, \* SessionManager.session_folder (0 is None, else the timestamp)
    now,            \* the clock, in seconds
    fs,             \* the directories session_<timestamp> of base_download_dir
    session_call,   \* history: the last call on the SessionManager
    returned,       \* history: what the last returning setup call returned
    set_up,         \* history: setup_session_folder has been called
    groq_env,       \* what the Groq services answer to one pipeline call
    groq_call,      \* what transcribe_and_process did
    settings,       \* SettingsManager.settings
    settings_file,  \* the JSON file of the SettingsManager
    settings_call,  \* history: the last call on the SettingsManager
    model_obj,      \* AudioTranscriber.whisper_model (0 is None, else the object)
    attempts,       \* history: executions of the loading block
    transcriber_call, \* history: the last call on the AudioTranscriber
    audio_env,      \* the audio file and what the tools do during one transcribe_audio call
    audio_call,     \* what transcribe_audio did
    extracted,      \* what _extract_shortcode did with the text
    entry,          \* what the shell did with the text the user entered
    engine,         \* what the Instaloader adapter did with the handed item
    batch_env,      \* the batch of the dashboard: what happens to each URL
    put_count,      \* download_batch: the events put on progress_queue so far
    thread_alive,   \* download_thread.is_alive()
    progress_queue, \* BatchDownloader.progress_queue
    monitor,        \* position of the monitor loop of main
    completed_count, \* completed_count of main
    overall_progress_value, \* the last value handed to overall_progress.progress (num / den)
    counted,        \* history: how often each URL was counted as completed
    drained         \* history: the events taken from progress_queue

\* the variables of the components that are studied on their own
urlVars == <<url, verdict, extracted, entry, engine>>

sessionVars == <<session_folder, now, fs, session_call, returned, set_up>>

groqVars == <<groq_env, groq_call>>

settingsVars == <<settings, settings_file, settings_call>>

whisperVars == <<model_obj, attempts, transcriber_call>>

audioVars == <<audio_env, audio_call>>

batchVars == <<batch_env, put_count, thread_alive, progress_queue, monitor, completed_count,
              overall_progress_value, counted, drained>>

unitVars == <<urlVars, sessionVars, groqVars, settingsVars, whisperVars, audioVars, batchVars>>

vars == <<shell, options, hinglish, pc, idx, is_running, loader, whisper_model,
          result, primary_error, disk, signals, reel_queue, report, run_error,
          summary, calls, tcalls, trace, faults, call, unitVars>>

NoText == <<>>

\* src/core/data_models.py: ReelItem defaults
NewReelItem ==
    [status |-> <<"Pending">>, progress |-> 0, error_message |-> NoText,
     title |-> NoText, video_path |-> NoText, audio_path |-> NoText,
     thumbnail_path |-> NoText, caption |-> NoText, transcript |-> NoText,
     folder_path |-> NoText]

NoReport == [kind |-> "none", error |-> NoText, result |-> EmptyResult]

AllGood(envs) == CHOOSE env \in envs : Faults(env) = 0

NoCall == [engine |-> "none", env |-> AllGood(EngineEnv), out |-> EmptyResult,
           tenv |-> AllGood(TransEnv), t |-> EmptyResult]

NoSummary == [computed |-> FALSE, completed |-> 0, total |-> 0]

\* no URL has been handed to the validator
NoUrl == [scheme |-> "", slashes |-> FALSE, authority |-> "", segs |-> <<>>,
          query |-> FALSE, fragment |-> FALSE, tail |-> <<>>]

NoVerdict == [done |-> FALSE, value |-> FALSE, raised |-> FALSE]

\* _extract_shortcode has not been called
NoShortcode == [done |-> FALSE, none |-> FALSE, text |-> <<>>]

\* no shell has been given the text
NoEntry == [shell |-> "none", handed |-> FALSE, refused |-> FALSE]

\* no engine has been invoked
NoEngine == [invoked |-> FALSE, raised |-> FALSE, message |-> <<>>, surfaced |-> <<>>]

UrlIdle ==
    /\ url = NoUrl
    /\ verdict = NoVerdict
    /\ extracted = NoShortcode
    /\ entry = NoEntry
    /\ engine = NoEngine

\* a path that is not on disk
Absent == [exists |-> FALSE, files |-> {}]

NoSessionCall == [op |-> "none", raised |-> FALSE, value |-> 0, before |-> Absent]

SessionIdle ==
    /\ session_folder = 0
    /\ now = 0
    /\ fs = <<>>
    /\ session_call = NoSessionCall
    /\ returned = 0
    /\ set_up = FALSE

\* GroqTranscriber.llm_models with the default model names: the candidate
\* models of the cleanup pass
llm_models == <<"llama-4-scout-17b-16e-instruct", "llama-3.3-70b-versatile",
                "llama-3.1-8b-instant">>

NoGroqEnv == [whisper |-> TRUE, raw |-> NoText, enable_post_processing |-> FALSE,
              llm_models |-> llm_models,
              reply |-> [i \in DOMAIN llm_models |-> "raise"]]

NoGroqCall == [done |-> FALSE, raised |-> FALSE, error |-> NoText,
               raw_transcription |-> NoText, cleaned_transcription |-> NoText,
               final_transcription |-> NoText, called |-> <<>>]

GroqIdle == groq_env = NoGroqEnv /\ groq_call = NoGroqCall

\* the settings file is not there
NoFile == [exists |-> FALSE, valid |-> FALSE, content |-> EmptyResult]

NoSettingsCall == [op |-> "none", arg |-> EmptyResult, env |-> "ok", found |-> FALSE,
                   raised |-> FALSE, value |-> "None"]

SettingsIdle ==
    /\ settings = EmptyResult
    /\ settings_file = NoFile
    /\ settings_call = NoSettingsCall


NoTranscriberCall == [op |-> "none", ok |-> TRUE, unset |-> FALSE, raised |-> FALSE,
                      found |-> {}, tenv |-> AllGood(TransEnv), result |-> EmptyResult]

WhisperIdle ==
    /\ model_obj = 0
    /\ attempts = 0
    /\ transcriber_call = NoTranscriberCall


NoAudioEnv == [size |-> 0, pydub |-> TRUE, known |-> TRUE, duration |-> 0,
               encode |-> "ok", upload |-> TRUE]

NoAudioCall == [done |-> FALSE, raised |-> FALSE, uploaded |-> "none", bitrate |-> 0,
                files |-> {"original"}]

AudioIdle == audio_env = NoAudioEnv /\ audio_call = NoAudioCall


NoBatchEnv == [setup_ok |-> TRUE, transcribe |-> FALSE, outcomes |-> <<>>]

NoValue == [num |-> 0, den |-> 1]

BatchIdle ==
    /\ batch_env = NoBatchEnv
    /\ put_count = 0
    /\ thread_alive = FALSE
    /\ progress_queue = <<>>
    /\ monitor = "none"
    /\ completed_count = 0
    /\ overall_progress_value = NoValue
    /\ counted = <<>>
    /\ drained = 0

\* the components studied on their own are not in use
UnitsIdle == UrlIdle /\ SessionIdle /\ GroqIdle /\ SettingsIdle /\ WhisperIdle /\ AudioIdle /\ BatchIdle

Init ==
    /\ UnitsIdle
    /\ shell \in Shells
    /\ options \in RunOptionSets
    /\ hinglish \in (IF shell = "APIDownloader" THEN BOOLEAN ELSE {FALSE})
    /\ pc = "setup"
    /\ idx = 0
    /\ is_running = TRUE
    /\ loader = FALSE
    /\ whisper_model = FALSE
    /\ result = EmptyResult
    /\ primary_error = NoText
    /\ disk = {}
    /\ signals = <<>>
    /\ reel_queue = [n \in 1..Count(shell) |-> NewReelItem]
    /\ report = [n \in 1..Count(shell) |-> NoReport]
    /\ run_error = NoText
    /\ summary = NoSummary
    /\ calls = [n \in 1..Count(shell) |-> <<>>]
    /\ tcalls = [n \in 1..Count(shell) |-> <<>>]
    /\ trace = <<>>
    /\ faults = 0
    /\ call = NoCall

\* _process_downloads: the agent pair chosen from options["downloader"]
primary_agent(opts) == IF opts.downloader = "Instaloader" THEN "Instaloader" ELSE "yt-dlp"

\* a swap that does not swap
fallback_agent_same(opts) == primary_agent(opts)

fallback_agent(opts) == IF opts.downloader = "Instaloader" THEN "yt-dlp" ELSE "Instaloader"

\* the events of an adapter call that carry the item's URL, as signals
UrlEvents(progress) ==
    SelectSeq(progress, LAMBDA e : e.url # 0)

ProgressSignal(e) == [sig |-> "progress", url |-> e.url, percent |-> e.percent,
                      status |-> e.status, result |-> EmptyResult]

ProgressSignals(progress) ==
    [k \in 1..Len(UrlEvents(progress)) |-> ProgressSignal(UrlEvents(progress)[k])]

\* pyqtSignal.emit from the worker thread: queued to the main window; the
\* web shells have no main window
Emit(q, sigs) == IF shell = "ReelDownloader" THEN q \o sigs ELSE q

CompletedSignal(n, res) == [sig |-> "completed", url |-> n, percent |-> 100,
                            status |-> NoText, result |-> res]

\* an error signal that does not name the item
ErrorSignal_unaddressed(n, msg) == [sig |-> "error", url |-> 0, percent |-> 0,
                                    status |-> msg, result |-> EmptyResult]

ErrorSignal(n, msg) == [sig |-> "error", url |-> n, percent |-> 0,
                        status |-> msg, result |-> EmptyResult]

FinishedSignal == [sig |-> "finished", url |-> 0, percent |-> 0,
                   status |-> NoText, result |-> EmptyResult]

\* where the worker goes after an item: the next loop iteration, or the end
\* of the call in the one-URL shells
AfterItem == IF shell \in {"ReelDownloader", "BatchDownloader"} THEN "loop" ELSE "finished"

\* history records of an engine invocation and of a transcription invocation
CallRecord(e, r) ==
    [engine |-> e, raised |-> r.raised, error |-> r.error, result |-> r.result]

TranscriptionRecord(n, res, guarded, t) ==
    [n |-> n, result |-> res, guarded |-> guarded, raised |-> t.raised,
     transcript |-> IF t.raised THEN NoText ELSE t.result["transcript"]]

\* the record a shell keeps of a finished item: the batch dashboard adds the
\* URL and a status to the dictionary it appends to self.results
FinalResult(res) ==
    IF shell = "BatchDownloader"
    THEN Put(Put(res, "url", idx), "status", "completed")
    ELSE res

\* download_completed.emit(item.url, result) / return result /
\* self.results.append(result): the item is reported as completed
ReportCompleted(sigs, res) ==
    /\ report' = [report EXCEPT ![idx] =
                    [kind |-> "completed", error |-> NoText, result |-> FinalResult(res)]]
    /\ signals' = Emit(signals, sigs \o <<CompletedSignal(idx, res)>>)
    /\ trace' = Append(trace, [ev |-> "end", item |-> idx])
    /\ pc' = AfterItem
    /\ idx' = idx + 1
    /\ result' = EmptyResult
    /\ primary_error' = NoText

\* a failure report that also ends the run
ReportErrorAborting(sigs, msg) ==
    /\ report' = [report EXCEPT ![idx] =
                    [kind |-> "error", error |-> msg, result |-> EmptyResult]]
    /\ signals' = Emit(signals, sigs \o <<ErrorSignal(idx, msg), FinishedSignal>>)
    /\ trace' = Append(trace, [ev |-> "end", item |-> idx])
    /\ pc' = "finished"
    /\ idx' = idx + 1
    /\ result' = EmptyResult
    /\ primary_error' = NoText

\* error_occurred.emit(item.url, msg) / raise / error response /
\* self.results.append(error_result): the item is reported as failed
ReportError(sigs, msg) ==
    /\ report' = [report EXCEPT ![idx] =
                    [kind |-> "error", error |-> msg, result |-> EmptyResult]]
    /\ signals' = Emit(signals, sigs \o <<ErrorSignal(idx, msg)>>)
    /\ trace' = Append(trace, [ev |-> "end", item |-> idx])
    /\ pc' = AfterItem
    /\ idx' = idx + 1
    /\ result' = EmptyResult
    /\ primary_error' = NoText

\* the message for an item whose two attempts failed
BothFailedMessage(e1, e2) ==
    IF shell \in {"ReelDownloader", "StreamlitDownloader"}
    THEN <<"Both downloaders failed: ">> \o e1 \o <<" | ">> \o e2
    ELSE e2

\* ------------------------------------------------------------------------
\* Worker steps
\* ------------------------------------------------------------------------
\* the worker emits while the main window keeps up with its queue
QueueHasRoom == Len(signals) <= MaxQueue

\* What happens before the first item.  session: the session folder can be
\* created; load: the Whisper model loads; init: Instaloader can be imported
\* and constructed.
SetupEnv == [session: BOOLEAN, load: BOOLEAN, init: BOOLEAN]

\* ReelDownloader.run up to _process_downloads, and the code before the
\* first attempt in the web shells: session folder, Whisper model,
\* Instaloader instance
setup(sh, opts, env) ==
    LET needLoader == sh = "ReelDownloader" \/ opts.downloader = "Instaloader"
        needModel == sh \in {"ReelDownloader", "BatchDownloader"} /\ opts.transcribe
        failed == ~env.session \/ (needLoader /\ ~env.init)
        msg == IF ~env.session THEN <<"session folder error">>
               ELSE <<"instaloader import error">>
    IN [whisper_model |-> env.session /\ needModel /\ env.load,
        loader |-> env.session /\ needLoader /\ env.init,
        failed |-> failed,
        error |-> IF ~failed THEN NoText
                  ELSE IF sh = "ReelDownloader" THEN <<"Thread error: ">> \o msg ELSE msg]

Setup ==
    /\ pc = "setup"
    /\ \E o \in Outcomes({[out |-> setup(shell, options, env),
                          cost |-> Faults(env)] :
                         env \in Affordable(SetupEnv, MaxFaults - faults)}) :
         /\ faults' = faults + o.cost
         /\ whisper_model' = o.out.whisper_model
         /\ loader' = o.out.loader
         /\ IF o.out.failed
            THEN /\ run_error' = o.out.error
                 /\ pc' = "finished"
                 /\ idx' = idx
                 /\ signals' = Emit(signals, <<ErrorSignal(0, o.out.error), FinishedSignal>>)
                 /\ report' = IF shell \in {"StreamlitDownloader", "APIDownloader"}
                              THEN [report EXCEPT ![1] =
                                      [kind |-> "error", error |-> o.out.error,
                                       result |-> EmptyResult]]
                              ELSE report
            ELSE /\ pc' = "loop"
                 /\ idx' = 1
                 /\ UNCHANGED <<run_error, signals, report>>
    /\ UNCHANGED <<unitVars, shell, options, hinglish, is_running, result, primary_error, disk,
                   reel_queue, summary, calls, tcalls, trace, call>>

\* number of completed items in self.results
CompletedReports == Cardinality({n \in DOMAIN report : report[n].kind = "completed"})

\* the head of the loop over the items: leave the loop, or start the item
LoopHead ==
    /\ pc = "loop"
    /\ QueueHasRoom
    /\ IF idx > Count(shell) \/ (shell = "ReelDownloader" /\ ~is_running)
       THEN /\ pc' = "finished"
            /\ signals' = Emit(signals, <<FinishedSignal>>)
            /\ summary' = IF shell = "BatchDownloader"
                          THEN [computed |-> TRUE, completed |-> CompletedReports,
                                total |-> Count(shell)]
                          ELSE summary
            /\ UNCHANGED trace
       ELSE /\ pc' = "primary"
            /\ signals' = Emit(signals,
                  <<ProgressSignal(Ev(idx, 0, <<"Starting download with ",
                                                 primary_agent(options), "...">>))>>)
            /\ trace' = Append(trace, [ev |-> "start", item |-> idx])
            /\ UNCHANGED summary
    /\ UNCHANGED <<unitVars, shell, options, hinglish, idx, is_running, loader, whisper_model,
                   result, primary_error, disk, reel_queue, report, run_error,
                   calls, tcalls, faults, call>>

\* the first attempt, with the engine chosen by options["downloader"]
PrimaryFetch ==
    /\ pc = "primary"
    /\ QueueHasRoom
    /\ \E o \in Outcomes({[out |-> download_reel(primary_agent(options), idx, loader,
                                                    options, env, disk),
                          cost |-> Faults(env)] :
                         env \in Affordable(EngineEnv, MaxFaults - faults)}) :
         LET e == primary_agent(options)
             r == o.out
             sigs == ProgressSignals(r.progress)
             failed == ProgressSignal(Ev(idx, 0,
                          <<e, " failed: ">> \o r.error
                             \o <<". Trying fallback ", fallback_agent(options), "...">>))
         IN /\ faults' = faults + o.cost
            /\ calls' = [calls EXCEPT ![idx] = Append(@, CallRecord(e, r))]
            /\ disk' = r.disk
            /\ IF r.raised
               THEN /\ primary_error' = r.error
                    /\ pc' = "fallback"
                    /\ signals' = Emit(signals, sigs \o <<failed>>)
                    /\ UNCHANGED <<result, report, trace, idx>>
               ELSE IF options.transcribe
               THEN /\ result' = r.result
                    /\ pc' = "transcribe"
                    /\ signals' = Emit(signals, sigs)
                    /\ UNCHANGED <<primary_error, report, trace, idx>>
               ELSE ReportCompleted(sigs, r.result)
    /\ UNCHANGED <<unitVars, shell, options, hinglish, is_running, loader, whisper_model,
                   reel_queue, run_error, summary, tcalls, call>>

\* what a shell writes into the result when the guarded transcription raised
TranscriptionFailed(res, err) ==
    LET msg == <<"Transcription failed: ">> \o err
    IN CASE shell = "ReelDownloader" -> Put(res, "transcript", msg)
         [] shell = "APIDownloader" -> Put(Put(res, "transcript_error", msg), "transcript", msg)
         [] OTHER -> Put(res, "transcript_error", err)

\* the transcriber call a shell makes: the one-URL shells load the Whisper
\* model right before it, the REST shell uses the remote transcriber when
\* enable_hinglish is set
transcription(tenv) ==
    LET loadsNow == shell \in {"StreamlitDownloader", "APIDownloader"} /\ ~hinglish
        model == IF loadsNow THEN (whisper_model \/ tenv.load) ELSE whisper_model
    IN [model |-> model,
        t |-> IF shell = "APIDownloader" /\ hinglish
              THEN groq_transcribe_audio_from_reel(idx, result, tenv, disk)
              ELSE transcribe_audio_from_reel(model, idx, result, tenv, disk)]

\* the transcription step behind a try/except: _handle_transcription of the
\* worker thread, and the inline blocks of the web shells
Transcribe ==
    /\ pc = "transcribe"
    /\ QueueHasRoom
    /\ \E o \in Outcomes({[out |-> transcription(env),
                          cost |-> Faults(env)] :
                         env \in Affordable(TransEnv, MaxFaults - faults)}) :
         LET t == o.out.t
             res == IF t.raised THEN TranscriptionFailed(result, t.error) ELSE t.result
             sigs == IF t.raised
                     THEN <<ProgressSignal(Ev(idx, 0, <<"Transcription failed: ">> \o t.error))>>
                     ELSE <<>>
         IN /\ faults' = faults + o.cost
            /\ whisper_model' = o.out.model
            /\ disk' = t.disk
            /\ tcalls' = [tcalls EXCEPT ![idx] =
                            Append(@, TranscriptionRecord(idx, result, TRUE, t))]
            /\ ReportCompleted(sigs, res)
    /\ UNCHANGED <<unitVars, shell, options, hinglish, is_running, loader, reel_queue,
                   run_error, summary, calls, call>>

\* the second attempt, with the other engine; the web shells create the
\* Instaloader instance first when the first attempt did not need it
FallbackFetch ==
    /\ pc = "fallback"
    /\ QueueHasRoom
    /\ LET e == fallback_agent(options)
           needInit == e = "Instaloader" /\ ~loader
       IN \/ /\ needInit
             /\ faults < MaxFaults
             /\ faults' = faults + 1
             /\ ReportError(<<>>, BothFailedMessage(primary_error,
                                                    <<"instaloader import error">>))
             /\ UNCHANGED <<loader, calls, disk>>
          \/ \E o \in Outcomes({[out |-> download_reel(e, idx, TRUE, options, env, disk),
                          cost |-> Faults(env)] :
                         env \in Affordable(EngineEnv, MaxFaults - faults)}) :
               LET r == o.out
                   sigs == ProgressSignals(r.progress)
               IN /\ faults' = faults + o.cost
                  /\ loader' = (loader \/ needInit)
                  /\ calls' = [calls EXCEPT ![idx] =
                                 Append(@, CallRecord(e, r))]
                  /\ disk' = r.disk
                  /\ IF r.raised
                     THEN ReportError(sigs, BothFailedMessage(primary_error, r.error))
                     ELSE IF options.transcribe /\ shell # "StreamlitDownloader"
                     THEN /\ result' = r.result
                          /\ pc' = IF shell = "ReelDownloader"
                                   THEN "fallback_transcribe" ELSE "transcribe"
                          /\ signals' = Emit(signals, sigs)
                          /\ UNCHANGED <<primary_error, report, trace, idx>>
                     ELSE ReportCompleted(sigs, r.result)
    /\ UNCHANGED <<unitVars, shell, options, hinglish, is_running, whisper_model, reel_queue,
                   run_error, summary, tcalls, call>>

\* the transcription call of the worker thread's fallback branch, inside the
\* try block of the second attempt
FallbackTranscribe ==
    /\ pc = "fallback_transcribe"
    /\ QueueHasRoom
    /\ \E o \in Outcomes({[out |-> transcription(env),
                          cost |-> Faults(env)] :
                         env \in Affordable(TransEnv, MaxFaults - faults)}) :
         LET t == o.out.t
         IN /\ faults' = faults + o.cost
            /\ disk' = t.disk
            /\ tcalls' = [tcalls EXCEPT ![idx] =
                            Append(@, TranscriptionRecord(idx, result, FALSE, t))]
            /\ IF t.raised
               THEN ReportError(<<>>, BothFailedMessage(primary_error, t.error))
               ELSE ReportCompleted(<<>>, t.result)
    /\ UNCHANGED <<unitVars, shell, options, hinglish, is_running, loader, whisper_model,
                   reel_queue, run_error, summary, calls, call>>

\* a stop that abandons the item in flight
StopInterrupting ==
    /\ shell = "ReelDownloader"
    /\ pc # "finished"
    /\ is_running
    /\ is_running' = FALSE
    /\ pc' = IF pc = "setup" THEN pc ELSE "loop"
    /\ result' = EmptyResult
    /\ primary_error' = NoText
    /\ UNCHANGED <<unitVars, shell, options, hinglish, idx, loader, whisper_model,
                   disk, signals, reel_queue, report, run_error,
                   summary, calls, tcalls, trace, faults, call>>

\* ReelDownloader.stop, called by MainWindow.closeEvent while the thread runs
Stop ==
    /\ shell = "ReelDownloader"
    /\ pc # "finished"
    /\ is_running
    /\ is_running' = FALSE
    /\ UNCHANGED <<unitVars, shell, options, hinglish, pc, idx, loader, whisper_model, result,
                   primary_error, disk, signals, reel_queue, report, run_error,
                   summary, calls, tcalls, trace, faults, call>>

\* ------------------------------------------------------------------------
\* src/ui/main_window.py: the slots of the main window
\* ------------------------------------------------------------------------
Get(r, k, default) == IF Has(r, k) THEN r[k] ELSE default

update_progress(q, s) ==
    IF s.url # 0
    THEN [q EXCEPT ![s.url].progress = s.percent, ![s.url].status = s.status]
    ELSE q

\* a completion slot that moves a no-audio message of the transcriber from
\* the transcript field to error_message
download_completed_annotating(q, s) ==
    LET t == Get(s.result, "transcript", NoText)
        skipped == t \in {NoAudioSource, NoAudioFile}
    IN [q EXCEPT ![s.url] =
          [@ EXCEPT !.status = <<"Completed">>,
                    !.progress = 100,
                    !.title = Get(s.result, "title", <<"Unknown">>),
                    !.video_path = Get(s.result, "video_path", NoText),
                    !.audio_path = Get(s.result, "audio_path", NoText),
                    !.thumbnail_path = Get(s.result, "thumbnail_path", NoText),
                    !.caption = Get(s.result, "caption", NoText),
                    !.error_message = IF skipped THEN t ELSE @,
                    !.transcript = IF skipped THEN NoText ELSE t,
                    !.folder_path = Get(s.result, "folder_path", NoText)]]

download_completed(q, s) ==
    [q EXCEPT ![s.url] =
        [@ EXCEPT !.status = <<"Completed">>,
                  !.progress = 100,
                  !.title = Get(s.result, "title", <<"Unknown">>),
                  !.video_path = Get(s.result, "video_path", NoText),
                  !.audio_path = Get(s.result, "audio_path", NoText),
                  !.thumbnail_path = Get(s.result, "thumbnail_path", NoText),
                  !.caption = Get(s.result, "caption", NoText),
                  !.transcript = Get(s.result, "transcript", NoText),
                  !.folder_path = Get(s.result, "folder_path", NoText)]]

download_error(q, s) ==
    IF s.url # 0
    THEN [q EXCEPT ![s.url].status = <<"Error">>, ![s.url].error_message = s.status]
    ELSE q

download_finished(q) ==
    [computed |-> TRUE,
     completed |-> Cardinality({n \in DOMAIN q : q[n].status = <<"Completed">>}),
     total |-> Len(q)]

\* the main window's event loop takes the next queued signal and runs its slot
Deliver ==
    /\ signals # <<>>
    /\ LET s == Head(signals)
       IN /\ signals' = Tail(signals)
          /\ reel_queue' = CASE s.sig = "progress" -> update_progress(reel_queue, s)
                             [] s.sig = "completed" -> download_completed(reel_queue, s)
                             [] s.sig = "error" -> download_error(reel_queue, s)
                             [] OTHER -> reel_queue
          /\ summary' = IF s.sig = "finished" THEN download_finished(reel_queue) ELSE summary
    /\ UNCHANGED <<unitVars, shell, options, hinglish, pc, idx, is_running, loader, whisper_model,
                   result, primary_error, disk, report, run_error, calls, tcalls, trace,
                   faults, call>>

Next ==
    \/ Setup
    \/ LoopHead
    \/ PrimaryFetch
    \/ Transcribe
    \/ FallbackFetch
    \/ FallbackTranscribe
    \/ Stop
    \/ Deliver

Spec == Init /\ [][Next]_vars

\* ------------------------------------------------------------------------
\* The adapters on their own: one adapter call for every option set and
\* every environment, followed by the transcription of its result
\* ------------------------------------------------------------------------
AgentInit ==
    /\ UnitsIdle
    /\ shell = "adapter"
    /\ options \in OptionSets
    /\ hinglish \in BOOLEAN
    /\ pc = "ready"
    /\ idx \in 1..NumItems
    /\ is_running = TRUE
    /\ loader = TRUE
    /\ whisper_model = TRUE
    /\ result = EmptyResult
    /\ primary_error = NoText
    /\ disk = {}
    /\ signals = <<>>
    /\ reel_queue = <<>>
    /\ report = <<>>
    /\ run_error = NoText
    /\ summary = NoSummary
    /\ calls = <<>>
    /\ tcalls = <<>>
    /\ trace = <<>>
    /\ faults = 0
    /\ call = NoCall

AgentCall(e) ==
    /\ pc = "ready"
    /\ \E env \in EngineEnv :
         LET out == download_reel(e, idx, loader, options, env, disk)
         IN /\ call' = [call EXCEPT !.engine = e, !.env = env, !.out = out]
            /\ disk' = out.disk
            /\ result' = out.result
            /\ pc' = "called"
    /\ UNCHANGED <<unitVars, shell, options, hinglish, idx, is_running, loader, whisper_model,
                   primary_error, signals, reel_queue, report, run_error, summary,
                   calls, tcalls, trace, faults>>

InstaloaderCall == AgentCall("Instaloader")

YtDlpCall == AgentCall("yt-dlp")

\* the transcriber applied to the result of a successful adapter call
AgentTranscribe ==
    /\ pc = "called"
    /\ ~call.out.raised
    /\ options.transcribe
    /\ \E tenv \in TransEnv :
         LET t == IF hinglish
                  THEN groq_transcribe_audio_from_reel(idx, result, tenv, disk)
                  ELSE transcribe_audio_from_reel(whisper_model, idx, result, tenv, disk)
         IN /\ call' = [call EXCEPT !.tenv = tenv, !.t = t]
            /\ disk' = t.disk
            /\ result' = t.result
            /\ pc' = "transcribed"
    /\ UNCHANGED <<unitVars, shell, options, hinglish, idx, is_running, loader, whisper_model,
                   primary_error, signals, reel_queue, report, run_error, summary,
                   calls, tcalls, trace, faults>>

NextAgents ==
    \/ InstaloaderCall
    \/ YtDlpCall
    \/ AgentTranscribe

SpecAgents == AgentInit /\ [][NextAgents]_vars

\* ------------------------------------------------------------------------
\* The components studied on their own
\* ------------------------------------------------------------------------
\* no shell runs
mainVars == <<shell, options, hinglish, pc, idx, is_running, loader, whisper_model,
              result, primary_error, disk, signals, reel_queue, report, run_error,
              summary, calls, tcalls, trace, faults, call>>

MainIdle ==
    /\ shell = "none"
    /\ options = [video |-> FALSE, thumbnail |-> FALSE, audio |-> FALSE,
                  caption |-> FALSE, transcribe |-> FALSE, downloader |-> "Instaloader"]
    /\ hinglish = FALSE
    /\ pc = "idle"
    /\ idx = 0
    /\ is_running = FALSE
    /\ loader = FALSE
    /\ whisper_model = FALSE
    /\ result = EmptyResult
    /\ primary_error = NoText
    /\ disk = {}
    /\ signals = <<>>
    /\ reel_queue = <<>>
    /\ report = <<>>
    /\ run_error = NoText
    /\ summary = NoSummary
    /\ calls = <<>>
    /\ tcalls = <<>>
    /\ trace = <<>>
    /\ faults = 0
    /\ call = NoCall

\* ------------------------------------------------------------------------
\* src/utils/url_validator.py
\* ------------------------------------------------------------------------
\* A URL text is scheme ":" (when there is a scheme), "//" (when slashes),
\* the authority text, "/" and the segments joined by "/" (when there are
\* segments), and a query "?..." (when query) or a fragment "#..." (when
\* fragment) whose text is the tail.  The empty segment stands for two
\* slashes in a row or a trailing slash.
MaxSegments == 4

Schemes == {"", "https"}

Authorities == {"", "instagram.com", "www.instagram.com", "instagram.net", "[::1"}

Segments == {"", "reel", "p", "id"}

SegSeqs == UNION {[1..k -> Segments] : k \in 0..MaxSegments}

\* the text of a query or of a fragment, cut at its slashes: "q" and
\* "q/reel/"
Tails == {<<"q">>, <<"q", "reel", "">>}

\* the texts that are read as written: a text without "//" and without an
\* authority text does not begin with an empty segment (it would begin with
\* "//"); a text has a query or a fragment or neither
Urls ==
    {u \in [scheme: Schemes, slashes: BOOLEAN, authority: Authorities,
            segs: SegSeqs, query: BOOLEAN, fragment: BOOLEAN,
            tail: Tails \cup {<<>>}] :
        /\ ~(~u.slashes /\ u.authority = "" /\ u.segs # <<>> /\ u.segs[1] = "")
        /\ ~(u.query /\ u.fragment)
        /\ (u.query \/ u.fragment) <=> u.tail # <<>>}

\* urllib.parse.urlparse: the text after "//" up to the next "/" is the
\* netloc, and an unmatched "[" in it is a ValueError; without "//" there is
\* no netloc and the authority text is the beginning of the path; the query
\* and the fragment are not part of the path
urlparse(u) ==
    IF u.slashes /\ u.authority = "[::1"
    THEN [raised |-> TRUE, netloc |-> "", leading |-> FALSE, segs |-> <<>>]
    ELSE IF u.slashes
    THEN [raised |-> FALSE, netloc |-> u.authority, leading |-> u.segs # <<>>,
          segs |-> u.segs]
    ELSE IF u.authority # ""
    THEN [raised |-> FALSE, netloc |-> "", leading |-> FALSE,
          segs |-> <<u.authority>> \o u.segs]
    ELSE [raised |-> FALSE, netloc |-> "", leading |-> u.segs # <<>>, segs |-> u.segs]

\* "/m/" in path, and path.split("/m/", 1): the position of the first
\* segment m that has a slash on both sides, 0 when there is none
RECURSIVE find_marker(_, _, _)
find_marker(parsed, m, i) ==
    IF i >= Len(parsed.segs)
    THEN 0
    ELSE IF parsed.segs[i] = m /\ (i > 1 \/ parsed.leading)
    THEN i
    ELSE find_marker(parsed, m, i + 1)

\* parts[1].split("/")[0] is not empty
has_id(parsed, m) ==
    LET parts1 == SubSeq(parsed.segs, find_marker(parsed, m, 1) + 1, Len(parsed.segs))
    IN Head(parts1) # ""

\* a validator that takes any marker that is followed by an identifier
is_valid_instagram_url_any_marker(u) ==
    LET parsed == urlparse(u)
    IN [done |-> TRUE, raised |-> FALSE,
        value |-> /\ ~parsed.raised
                  /\ parsed.netloc \in {"instagram.com", "www.instagram.com"}
                  /\ \E i \in 1..(Len(parsed.segs) - 1) :
                        /\ parsed.segs[i] \in {"reel", "p"}
                        /\ parsed.segs[i + 1] # ""]

is_valid_instagram_url(u) ==
    LET parsed == urlparse(u)
        value == IF parsed.raised
                 THEN FALSE
                 ELSE IF parsed.netloc \notin {"instagram.com", "www.instagram.com"}
                 THEN FALSE
                 ELSE IF find_marker(parsed, "reel", 1) # 0
                 THEN has_id(parsed, "reel")
                 ELSE IF find_marker(parsed, "p", 1) # 0
                 THEN has_id(parsed, "p")
                 ELSE FALSE
    IN [done |-> TRUE, raised |-> FALSE, value |-> value]

\* src/agents/instaloader.py
\* the text as a string: its pieces between the slashes, each piece a
\* sequence of tokens ("https:" is <<"https", ":">>, an empty piece is <<>>)
Tok(a) == IF a = "" THEN <<>> ELSE <<a>>

Pieces(u) ==
    LET lead == IF u.scheme = "" THEN <<>> ELSE <<u.scheme, ":">>
        front == IF u.slashes
                 THEN <<lead, <<>>, Tok(u.authority)>>
                 ELSE <<lead \o Tok(u.authority)>>
        body == front \o [i \in 1..Len(u.segs) |-> Tok(u.segs[i])]
        sign == IF u.query THEN <<"?">> ELSE <<"#">>
    IN IF u.tail = <<>>
       THEN body
       ELSE [body EXCEPT ![Len(body)] = @ \o sign \o Tok(u.tail[1])]
                \o [i \in 1..(Len(u.tail) - 1) |-> Tok(u.tail[i + 1])]

\* "/m/" in url, and url.split("/m/")[1]: the position of the first piece
\* that is m with a slash on both sides, 0 when there is none
RECURSIVE find_in_text(_, _, _)
find_in_text(pieces, m, i) ==
    IF i >= Len(pieces)
    THEN 0
    ELSE IF i > 1 /\ pieces[i] = <<m>>
    THEN i
    ELSE find_in_text(pieces, m, i + 1)

\* piece.split("?")[0]
RECURSIVE before_question_mark(_)
before_question_mark(piece) ==
    IF piece = <<>> \/ Head(piece) = "?"
    THEN <<>>
    ELSE <<Head(piece)>> \o before_question_mark(Tail(piece))

extract_shortcode(u) ==
    LET pieces == Pieces(u)
        m == IF find_in_text(pieces, "reel", 1) # 0
             THEN "reel"
             ELSE IF find_in_text(pieces, "p", 1) # 0
             THEN "p"
             ELSE ""
    IN IF m = ""
       THEN [done |-> TRUE, none |-> TRUE, text |-> <<>>]
       ELSE [done |-> TRUE, none |-> FALSE,
             text |-> before_question_mark(pieces[find_in_text(pieces, m, 1) + 1])]

\* download_reel up to the shortcode: "if not shortcode" raises ValueError,
\* which leaves the adapter as "Instaloader download error: ..."
instaloader_start(u) ==
    LET shortcode == extract_shortcode(u)
    IN IF shortcode.none \/ shortcode.text = <<>>
       THEN [raised |-> TRUE,
             message |-> <<"Instaloader download error: ", "Invalid Instagram URL">>]
       ELSE [raised |-> FALSE, message |-> <<>>]

\* the shells whose boundary takes the text of the user: the desktop queue
\* (add_to_queue), the REST endpoint (download_media), the batch dashboard
\* (parse_urls and its single-URL form) and the single-URL web page
Boundaries == Shells

UrlInit ==
    /\ MainIdle
    /\ BatchIdle
    /\ AudioIdle
    /\ WhisperIdle
    /\ SessionIdle
    /\ GroqIdle
    /\ SettingsIdle
    /\ url \in Urls
    /\ verdict = NoVerdict
    /\ extracted = NoShortcode
    /\ entry = NoEntry
    /\ engine = NoEngine

Validate ==
    /\ ~verdict.done
    /\ verdict' = is_valid_instagram_url(url)
    /\ UNCHANGED <<mainVars, batchVars, audioVars, whisperVars, url, sessionVars, groqVars, settingsVars,
                   extracted, entry, engine>>

ExtractShortcode ==
    /\ verdict.done
    /\ ~extracted.done
    /\ extracted' = extract_shortcode(url)
    /\ UNCHANGED <<mainVars, batchVars, audioVars, whisperVars, url, sessionVars, groqVars, settingsVars,
                   verdict, entry, engine>>

\* the shell sh is given the text: it hands it on as an item when the
\* validator accepts it and refuses it otherwise (a warning box, status 400,
\* st.error, or the line is left out of the batch)
Enter(sh) ==
    /\ extracted.done
    /\ entry.shell = "none"
    /\ entry' = [shell |-> sh,
                 handed |-> is_valid_instagram_url(url).value,
                 refused |-> ~is_valid_instagram_url(url).value]
    /\ UNCHANGED <<mainVars, batchVars, audioVars, whisperVars, url, sessionVars, groqVars, settingsVars,
                   verdict, extracted, engine>>

\* whether the shell shows the text of a failure of the Instaloader adapter:
\* the desktop worker always does ("Instaloader failed: ..." or "Both
\* downloaders failed: ..."), the single-URL page when both engines fail,
\* the REST endpoint and the batch dashboard when the adapter is the fallback
Shows(sh, downloader, yt_ok) ==
    CASE sh = "ReelDownloader" -> TRUE
      [] sh = "StreamlitDownloader" -> ~yt_ok
      [] OTHER -> downloader = "yt-dlp"

\* the orchestrator of the shell invokes the Instaloader adapter for the
\* item, as the primary engine or after the failure of yt-dlp
InvokeEngine(downloader, yt_ok) ==
    /\ entry.handed
    /\ ~engine.invoked
    /\ downloader = "Instaloader" \/ ~yt_ok
    /\ LET r == instaloader_start(url)
       IN engine' = [invoked |-> TRUE, raised |-> r.raised, message |-> r.message,
                     surfaced |-> IF r.raised /\ Shows(entry.shell, downloader, yt_ok)
                                  THEN r.message
                                  ELSE <<>>]
    /\ UNCHANGED <<mainVars, batchVars, audioVars, whisperVars, url, sessionVars, groqVars, settingsVars,
                   verdict, extracted, entry>>

NextUrl ==
    \/ Validate
    \/ ExtractShortcode
    \/ \E sh \in Boundaries : Enter(sh)
    \/ \E downloader \in {"Instaloader", "yt-dlp"}, yt_ok \in BOOLEAN :
          InvokeEngine(downloader, yt_ok)

SpecUrl == UrlInit /\ [][NextUrl]_vars

\* ------------------------------------------------------------------------
\* src/core/session_manager.py
\* ------------------------------------------------------------------------
\* the clock values of a run; strftime("%Y%m%d_%H%M%S") keeps the second
MaxClock == 3

Timestamps == 1..MaxClock

\* the reel folders a download creates in the session folder
ReelNumbers == {1, 2}

\* Path.mkdir(parents=True, exist_ok=True) on session_<t>: an existing
\* directory is left as it is, otherwise the directory is created or the
\* call raises (ok is false: the base directory cannot be written)
mkdir_exclusive(d, t, ok) ==
    IF d[t].exists \/ ~ok
    THEN [raised |-> TRUE, fs |-> d]
    ELSE [raised |-> FALSE, fs |-> [d EXCEPT ![t] = [exists |-> TRUE, files |-> {}]]]

mkdir(d, t, ok) ==
    IF d[t].exists
    THEN [raised |-> FALSE, fs |-> d]
    ELSE IF ok
         THEN [raised |-> FALSE,
               fs |-> [d EXCEPT ![t] = [exists |-> TRUE, files |-> {}]]]
         ELSE [raised |-> TRUE, fs |-> d]

SessionInit ==
    /\ MainIdle
    /\ BatchIdle
    /\ AudioIdle
    /\ WhisperIdle
    /\ UrlIdle
    /\ GroqIdle
    /\ SettingsIdle
    /\ session_folder = 0
    /\ now = 1
    /\ fs = [t \in Timestamps |-> Absent]
    /\ session_call = NoSessionCall
    /\ returned = 0
    /\ set_up = FALSE

\* the attribute is assigned before the directory is made
setup_session_folder ==
    \E ok \in BOOLEAN :
        LET m == mkdir(fs, now, ok)
        IN /\ session_folder' = now
           /\ fs' = m.fs
           /\ session_call' = [op |-> "setup", raised |-> m.raised,
                               value |-> IF m.raised THEN 0 ELSE now,
                               before |-> fs[now]]
           /\ returned' = IF m.raised THEN returned ELSE now
           /\ set_up' = TRUE
           /\ UNCHANGED <<mainVars, batchVars, audioVars, whisperVars, urlVars, groqVars, settingsVars, now>>

get_session_folder ==
    /\ session_call' = [op |-> "get", raised |-> FALSE, value |-> session_folder,
                        before |-> Absent]
    /\ UNCHANGED <<mainVars, batchVars, audioVars, whisperVars, urlVars, groqVars, settingsVars, session_folder, now, fs, returned, set_up>>

\* an adapter makes its reel folder in the session folder it was handed
MakeReelFolder ==
    \E n \in ReelNumbers :
        /\ session_folder # 0
        /\ fs[session_folder].exists
        /\ fs' = [fs EXCEPT ![session_folder].files = @ \cup {n}]
        /\ UNCHANGED <<mainVars, batchVars, audioVars, whisperVars, urlVars, groqVars, settingsVars, session_folder, now, session_call,
                       returned, set_up>>

Tick ==
    /\ now < MaxClock
    /\ now' = now + 1
    /\ UNCHANGED <<mainVars, batchVars, audioVars, whisperVars, urlVars, groqVars, settingsVars, session_folder, fs, session_call, returned,
                   set_up>>

NextSession == setup_session_folder \/ get_session_folder \/ MakeReelFolder \/ Tick

SpecSession == SessionInit /\ [][NextSession]_vars

\* ------------------------------------------------------------------------
\* src/core/groq_transcriber.py
\* ------------------------------------------------------------------------
\* what client.chat.completions.create does for one model: it raises, or
\* the message content is None, is white space only, or is a text
Replies == {"raise", "none", "blank", "text"}

\* the text Whisper can return: nothing (no speech) or a text
RawTexts == {NoText, <<"raw">>}

\* the names the environment variables GROQ_PRIMARY_LLM, GROQ_FALLBACK_LLM_1
\* and GROQ_FALLBACK_LLM_2 can put into llm_models
ModelLists == [DOMAIN llm_models -> {llm_models[i] : i \in DOMAIN llm_models}]

\* reply[i] is the answer to the call made for the i-th entry of the list
GroqEnvs ==
    [whisper : BOOLEAN, raw : RawTexts, enable_post_processing : BOOLEAN,
     llm_models : ModelLists, reply : [DOMAIN llm_models -> Replies]]

\* the loop over the list models from the i-th entry on, called being the
\* entries called so far; content.strip() of None raises AttributeError,
\* which the handler takes as a failure; the handler gives up when the
\* name of the entry equals the name of the last entry
RECURSIVE post_process_with_llm(_, _, _, _, _)
post_process_with_llm(models, transcription_text, reply, i, called) ==
    IF i > Len(models)
    THEN [text |-> transcription_text, called |-> called]
    ELSE CASE reply[i] = "text" -> [text |-> <<"cleaned by ", models[i]>>,
                                    called |-> Append(called, i)]
           [] reply[i] = "blank" -> [text |-> NoText, called |-> Append(called, i)]
           [] OTHER -> IF models[i] = models[Len(models)]
                       THEN [text |-> transcription_text, called |-> Append(called, i)]
                       ELSE post_process_with_llm(models, transcription_text, reply,
                                                  i + 1, Append(called, i))

transcribe_and_process(env) ==
    IF ~env.whisper
    THEN [NoGroqCall EXCEPT
             !.done = TRUE, !.raised = TRUE,
             !.error = <<"Transcription pipeline failed:",
                         "Groq Whisper transcription failed:", "api error">>]
    ELSE LET raw_text == env.raw
             cleaned == IF env.enable_post_processing /\ raw_text # NoText
                        THEN post_process_with_llm(env.llm_models, raw_text, env.reply,
                                                   1, <<>>)
                        ELSE [text |-> raw_text, called |-> <<>>]
         IN [NoGroqCall EXCEPT
                !.done = TRUE,
                !.raw_transcription = raw_text,
                !.cleaned_transcription = cleaned.text,
                !.final_transcription = cleaned.text,
                !.called = cleaned.called]

GroqInit ==
    /\ MainIdle
    /\ BatchIdle
    /\ AudioIdle
    /\ WhisperIdle
    /\ UrlIdle
    /\ SessionIdle
    /\ SettingsIdle
    /\ groq_env \in GroqEnvs
    /\ groq_call = NoGroqCall

TranscribeAndProcess ==
    /\ ~groq_call.done
    /\ groq_call' = transcribe_and_process(groq_env)
    /\ UNCHANGED <<mainVars, batchVars, audioVars, whisperVars, urlVars, sessionVars, settingsVars, groq_env>>

NextGroq == TranscribeAndProcess

SpecGroq == GroqInit /\ [][NextGroq]_vars

\* ------------------------------------------------------------------------
\* src/core/settings_manager.py
\* ------------------------------------------------------------------------
Keys == {"ui_settings", "theme"}

\* the values a caller hands in: a string, a tuple, an object json cannot
\* encode
SettingValues == {"str", "tuple", "set"}

\* json.load(json.dump(v)): a tuple comes back as a list
json_value(v) == IF v = "tuple" THEN "list" ELSE v

JsonValues == {"str", "list"}

Dicts(values) == UNION {[K -> values] : K \in SUBSET Keys}

Serialisable(d) == \A k \in DOMAIN d : d[k] # "set"

\* what opening and writing the file does: all of it works, open raises,
\* or the file is opened (and so truncated) and the writing raises
WriteEnvs == {"ok", "open raises", "write raises"}

\* dict.update replaced by an assignment
update_replacing(d, e) == e

\* dict.update
update(d, e) == [k \in (DOMAIN d) \cup (DOMAIN e) |-> IF k \in DOMAIN e THEN e[k] ELSE d[k]]

\* open(settings_file, "w") and json.dump(d, f, indent=2), which writes the
\* text piece by piece and raises TypeError at a value it cannot encode
dump(file, d, env) ==
    IF env = "open raises"
    THEN file
    ELSE IF env = "ok" /\ Serialisable(d)
         THEN [exists |-> TRUE, valid |-> TRUE,
               content |-> [k \in DOMAIN d |-> json_value(d[k])]]
         ELSE [exists |-> TRUE, valid |-> FALSE, content |-> EmptyResult]

\* the dictionary after load_settings; read is false when opening or
\* reading the file raises
load(d, file, read) ==
    IF ~file.exists
    THEN d
    ELSE IF read /\ file.valid THEN file.content ELSE EmptyResult

Files == {NoFile, [exists |-> TRUE, valid |-> FALSE, content |-> EmptyResult]}
             \cup {[exists |-> TRUE, valid |-> TRUE, content |-> d] :
                        d \in Dicts(JsonValues)}

\* __init__: settings = {} and then load_settings()
SettingsInit ==
    /\ MainIdle
    /\ BatchIdle
    /\ AudioIdle
    /\ WhisperIdle
    /\ UrlIdle
    /\ SessionIdle
    /\ GroqIdle
    /\ settings_file \in Files
    /\ \E read \in BOOLEAN : settings = load(EmptyResult, settings_file, read)
    /\ settings_call = NoSettingsCall

load_settings ==
    \E read \in BOOLEAN :
        /\ settings' = load(settings, settings_file, read)
        /\ settings_call' = [NoSettingsCall EXCEPT
                                !.op = "load",
                                !.env = IF read THEN "ok" ELSE "read raises",
                                !.found = settings_file.exists]
        /\ UNCHANGED <<mainVars, batchVars, audioVars, whisperVars, urlVars, sessionVars, groqVars, settings_file>>

save_settings ==
    \E current_settings \in Dicts(SettingValues), env \in WriteEnvs :
        /\ settings' = update(settings, current_settings)
        /\ settings_file' = dump(settings_file, settings', env)
        /\ settings_call' = [NoSettingsCall EXCEPT
                                !.op = "save", !.arg = current_settings, !.env = env,
                                !.found = settings_file.exists]
        /\ UNCHANGED <<mainVars, batchVars, audioVars, whisperVars, urlVars, sessionVars, groqVars>>

\* settings[key] = value, then save_settings(self.settings)
set_setting ==
    \E key \in Keys, value \in SettingValues, env \in WriteEnvs :
        LET assigned == Put(settings, key, value)
        IN /\ settings' = update(assigned, assigned)
           /\ settings_file' = dump(settings_file, settings', env)
           /\ settings_call' = [NoSettingsCall EXCEPT
                                   !.op = "set", !.arg = [k \in {key} |-> value],
                                   !.env = env, !.found = settings_file.exists]
           /\ UNCHANGED <<mainVars, batchVars, audioVars, whisperVars, urlVars, sessionVars, groqVars>>

get_setting ==
    \E key \in Keys :
        /\ settings_call' = [NoSettingsCall EXCEPT
                                !.op = "get", !.arg = [k \in {key} |-> "default"],
                                !.value = Get(settings, key, "default")]
        /\ UNCHANGED <<mainVars, batchVars, audioVars, whisperVars, urlVars, sessionVars, groqVars, settings,
                       settings_file>>

NextSettings == load_settings \/ save_settings \/ set_setting \/ get_setting

SpecSettings == SettingsInit /\ [][NextSettings]_vars


\* ------------------------------------------------------------------------
\* src/core/transcriber.py: the model of one AudioTranscriber
\* ------------------------------------------------------------------------
\* executions of the loading block of load_whisper_model that are followed
MaxLoads == 3

\* load_whisper_model without the test of self.whisper_model
load_whisper_model_reloading(model, fresh, ok) ==
    IF ok
    THEN [model |-> fresh, loading |-> TRUE, raised |-> FALSE]
    ELSE [model |-> 0, loading |-> TRUE, raised |-> FALSE]

\* load_whisper_model: fresh is the object whisper.load_model would return,
\* ok is false when a step of the loading block raises
load_whisper_model(model, fresh, ok) ==
    IF model # 0
    THEN [model |-> model, loading |-> FALSE, raised |-> FALSE]
    ELSE IF ok
         THEN [model |-> fresh, loading |-> TRUE, raised |-> FALSE]
         ELSE [model |-> 0, loading |-> TRUE, raised |-> FALSE]

\* what a transcription call finds: the result of the fetch and the files
ReelStates ==
    {[result |-> EmptyResult, disk |-> {}],
     [result |-> EmptyResult, disk |-> {File(1, "video")}],
     [result |-> Put(EmptyResult, "audio_path", File(1, "audio")),
      disk |-> {File(1, "video"), File(1, "audio")}]}

WhisperInit ==
    /\ MainIdle
    /\ BatchIdle
    /\ AudioIdle
    /\ UrlIdle
    /\ SessionIdle
    /\ GroqIdle
    /\ SettingsIdle
    /\ model_obj = 0
    /\ attempts = 0
    /\ transcriber_call = NoTranscriberCall

LoadWhisperModel ==
    /\ attempts < MaxLoads
    /\ \E ok \in BOOLEAN :
         LET l == load_whisper_model(model_obj, attempts + 1, ok)
         IN /\ model_obj' = l.model
            /\ attempts' = IF l.loading THEN attempts + 1 ELSE attempts
            /\ transcriber_call' = [NoTranscriberCall EXCEPT
                                      !.op = "load", !.ok = ok, !.unset = (model_obj = 0),
                                      !.raised = l.raised]
    /\ UNCHANGED <<mainVars, batchVars, audioVars, urlVars, sessionVars, groqVars, settingsVars>>

TranscribeFromReel ==
    /\ \E reel \in ReelStates, tenv \in TransEnv :
         LET t == transcribe_audio_from_reel(model_obj # 0, 1, reel.result, tenv, reel.disk)
         IN transcriber_call' = [NoTranscriberCall EXCEPT
                                   !.op = "transcribe", !.unset = (model_obj = 0),
                                   !.found = reel.disk, !.tenv = tenv,
                                   !.raised = t.raised, !.result = t.result]
    /\ UNCHANGED <<mainVars, batchVars, audioVars, urlVars, sessionVars, groqVars, settingsVars, model_obj, attempts>>

NextWhisper == LoadWhisperModel \/ TranscribeFromReel

SpecWhisper == WhisperInit /\ [][NextWhisper]_vars


\* ------------------------------------------------------------------------
\* src/core/groq_transcriber.py: the upload of one audio file
\* ------------------------------------------------------------------------
\* max_size_mb = 24.5, in tenths of a megabyte
max_size_mb == 245

\* file sizes in tenths of a megabyte
Sizes == {100, 245, 246, 400}

\* durations in seconds
Durations == {0, 600, 1568, 3000, 6272, 10000}

\* export / ffmpeg: it works, it raises, or it raises with a part of the
\* compressed file written
Encodes == {"ok", "raises", "raises after writing"}

\* pydub: "from pydub import AudioSegment" works; known: ffprobe tells the
\* duration; upload: the Whisper request succeeds
AudioEnvs ==
    [size : Sizes, pydub : BOOLEAN, known : BOOLEAN, duration : Durations,
     encode : Encodes, upload : BOOLEAN]

Min2(a, b) == IF a <= b THEN a ELSE b

Max2(a, b) == IF a >= b THEN a ELSE b

\* max(32, min(int((max_size_mb * 8192) / duration_seconds), 128))
target_bitrate_kbps(duration_seconds) ==
    Max2(32, Min2(((max_size_mb * 8192) \div 10) \div duration_seconds, 128))

\* the files left by the encoder
Encoded(env) ==
    IF env.encode = "raises" THEN {"original"} ELSE {"original", "compressed"}

\* _compress_audio_if_needed: the pydub branch is guarded by "except
\* Exception"; the ffmpeg branch runs inside the "except ImportError"
\* handler, where no other handler of the statement applies
compress_audio_if_needed(env) ==
    IF env.size <= max_size_mb
    THEN [raised |-> FALSE, path |-> "original", bitrate |-> 0, files |-> {"original"}]
    ELSE IF env.pydub
    THEN IF env.duration = 0
         THEN [raised |-> FALSE, path |-> "original", bitrate |-> 0,
               files |-> {"original"}]
         ELSE IF env.encode = "ok"
              THEN [raised |-> FALSE, path |-> "compressed",
                    bitrate |-> target_bitrate_kbps(env.duration), files |-> Encoded(env)]
              ELSE [raised |-> FALSE, path |-> "original", bitrate |-> 0,
                    files |-> Encoded(env)]
    ELSE LET rate == IF env.known /\ env.duration # 0
                     THEN target_bitrate_kbps(env.duration)
                     ELSE 64
         IN IF env.encode = "ok"
            THEN [raised |-> FALSE, path |-> "compressed", bitrate |-> rate,
                  files |-> Encoded(env)]
            ELSE [raised |-> TRUE, path |-> "none", bitrate |-> rate,
                  files |-> Encoded(env)]

\* transcribe_audio: the compression is called before the try statement
transcribe_audio(env) ==
    LET c == compress_audio_if_needed(env)
    IN IF c.raised
       THEN [done |-> TRUE, raised |-> TRUE, uploaded |-> "none", bitrate |-> c.bitrate,
             files |-> c.files]
       ELSE [done |-> TRUE, raised |-> ~env.upload, uploaded |-> c.path,
             bitrate |-> c.bitrate,
             files |-> IF c.path # "original" THEN c.files \ {c.path} ELSE c.files]

AudioInit ==
    /\ MainIdle
    /\ BatchIdle
    /\ UrlIdle
    /\ SessionIdle
    /\ GroqIdle
    /\ SettingsIdle
    /\ WhisperIdle
    /\ audio_env \in AudioEnvs
    /\ audio_call = NoAudioCall

TranscribeAudio ==
    /\ ~audio_call.done
    /\ audio_call' = transcribe_audio(audio_env)
    /\ UNCHANGED <<mainVars, batchVars, urlVars, sessionVars, groqVars, settingsVars, whisperVars,
                   audio_env>>

NextAudio == TranscribeAudio

SpecAudio == AudioInit /\ [][NextAudio]_vars


\* ------------------------------------------------------------------------
\* streamlit_batch_app.py: the worker thread and the monitor loop
\* ------------------------------------------------------------------------
\* the largest number of URLs of a batch
MaxUrls == 2

\* what happens to a URL: the primary engine succeeds, the fallback engine
\* succeeds after the failure of the primary, or both fail
BatchOutcomes == {"primary", "fallback", "error"}

\* setup_ok: the code of download_batch before the loop does not raise;
\* the URLs of the batch are 1..Len(outcomes)
BatchEnvs ==
    [setup_ok : BOOLEAN, transcribe : BOOLEAN,
     outcomes : UNION {[1..k -> BatchOutcomes] : k \in 1..MaxUrls}]

\* an event (url, progress, status); url 0 is the empty string
QueueItem(u, p, st) == [url |-> u, progress |-> p, status |-> st]

\* what an adapter hands to its progress callback, which puts it on the
\* queue: its last call before it returns is (item.url, 100, "Completed")
adapter_events(u, ok) ==
    IF ok
    THEN <<QueueItem(u, 10, "Downloading..."), QueueItem(0, 60, "Extracting audio..."),
           QueueItem(u, 100, "Completed")>>
    ELSE <<QueueItem(u, 10, "Downloading...")>>

\* the events of one iteration of the loop of download_batch
url_events(u, outcome, transcribe) ==
    LET start == <<QueueItem(u, 0, "Starting download...")>>
        retrying == <<QueueItem(u, 0, "Primary downloader failed, trying fallback...")>>
        transcribing == IF transcribe
                        THEN <<QueueItem(u, 90, "Transcribing audio..."),
                               QueueItem(0, 90, "Transcribing audio...")>>
                        ELSE <<>>
        completed == <<QueueItem(u, 100, "Completed")>>
    IN CASE outcome = "primary" ->
              start \o adapter_events(u, TRUE) \o transcribing \o completed
         [] outcome = "fallback" ->
              start \o adapter_events(u, FALSE) \o retrying \o adapter_events(u, TRUE)
                  \o transcribing \o completed
         [] OTHER ->
              start \o adapter_events(u, FALSE) \o retrying \o adapter_events(u, FALSE)
                  \o <<QueueItem(u, 0, "Error: ...")>>

RECURSIVE loop_events(_, _)
loop_events(env, u) ==
    IF u > Len(env.outcomes)
    THEN <<>>
    ELSE url_events(u, env.outcomes[u], env.transcribe) \o loop_events(env, u + 1)

\* download_batch: every event it puts on the queue, in order; nothing when
\* the code before the loop raises
download_batch(env) ==
    IF ~env.setup_ok
    THEN <<>>
    ELSE (IF env.transcribe
          THEN <<QueueItem(0, 0, "Loading transcription model...")>>
          ELSE <<>>)
         \o loop_events(env, 1)
         \o <<QueueItem(0, 100, "Batch download completed!")>>

\* the state after download_thread.start() and completed_count = 0
BatchInit ==
    /\ MainIdle
    /\ UrlIdle
    /\ SessionIdle
    /\ GroqIdle
    /\ SettingsIdle
    /\ WhisperIdle
    /\ AudioIdle
    /\ batch_env \in BatchEnvs
    /\ put_count = 0
    /\ thread_alive = TRUE
    /\ progress_queue = <<>>
    /\ monitor = "while"
    /\ completed_count = 0
    /\ overall_progress_value = NoValue
    /\ counted = [u \in DOMAIN batch_env.outcomes |-> 0]
    /\ drained = 0

\* the worker thread: self.progress_queue.put(...)
WorkerPut ==
    /\ thread_alive
    /\ put_count < Len(download_batch(batch_env))
    /\ progress_queue' = Append(progress_queue, download_batch(batch_env)[put_count + 1])
    /\ put_count' = put_count + 1
    /\ UNCHANGED <<mainVars, urlVars, sessionVars, groqVars, settingsVars, whisperVars,
                   audioVars, batch_env, thread_alive, monitor, completed_count,
                   overall_progress_value, counted, drained>>

\* the worker thread ends
WorkerExit ==
    /\ thread_alive
    /\ put_count = Len(download_batch(batch_env))
    /\ thread_alive' = FALSE
    /\ UNCHANGED <<mainVars, urlVars, sessionVars, groqVars, settingsVars, whisperVars,
                   audioVars, batch_env, put_count, progress_queue, monitor,
                   completed_count, overall_progress_value, counted, drained>>

\* while download_thread.is_alive() or not downloader.progress_queue.empty()
MonitorWhile ==
    /\ monitor = "while"
    /\ monitor' = IF thread_alive \/ progress_queue # <<>> THEN "drain" ELSE "join"
    /\ UNCHANGED <<mainVars, urlVars, sessionVars, groqVars, settingsVars, whisperVars,
                   audioVars, batch_env, put_count, thread_alive, progress_queue,
                   completed_count, overall_progress_value, counted, drained>>

\* while not downloader.progress_queue.empty(): get_nowait() and the
\* handling of the event
MonitorDrain ==
    /\ monitor = "drain"
    /\ IF progress_queue = <<>>
       THEN /\ monitor' = "update"
            /\ UNCHANGED <<progress_queue, completed_count, counted, drained>>
       ELSE LET event == Head(progress_queue)
                counts == event.url # 0 /\ event.url \in DOMAIN counted
                              /\ event.progress = 100
            IN /\ progress_queue' = Tail(progress_queue)
               /\ drained' = drained + 1
               /\ completed_count' = IF counts THEN completed_count + 1
                                     ELSE completed_count
               /\ counted' = IF counts
                             THEN [counted EXCEPT ![event.url] = @ + 1]
                             ELSE counted
               /\ UNCHANGED monitor
    /\ UNCHANGED <<mainVars, urlVars, sessionVars, groqVars, settingsVars, whisperVars,
                   audioVars, batch_env, put_count, thread_alive, overall_progress_value>>

\* overall_progress.progress(completed_count / len(urls)), which raises
\* StreamlitAPIException for a value above 1.0, an exception that the
\* "except queue.Empty" of the loop does not catch; then time.sleep(0.1)
MonitorUpdate ==
    /\ monitor = "update"
    /\ overall_progress_value' = [num |-> completed_count, den |-> Len(batch_env.outcomes)]
    /\ monitor' = IF completed_count > Len(batch_env.outcomes) THEN "raised" ELSE "while"
    /\ UNCHANGED <<mainVars, urlVars, sessionVars, groqVars, settingsVars, whisperVars,
                   audioVars, batch_env, put_count, thread_alive, progress_queue,
                   completed_count, counted, drained>>

\* download_thread.join() and overall_progress.progress(1.0)
MonitorJoin ==
    /\ monitor = "join"
    /\ ~thread_alive
    /\ overall_progress_value' = [num |-> 1, den |-> 1]
    /\ monitor' = "done"
    /\ UNCHANGED <<mainVars, urlVars, sessionVars, groqVars, settingsVars, whisperVars,
                   audioVars, batch_env, put_count, thread_alive, progress_queue,
                   completed_count, counted, drained>>

Worker == WorkerPut \/ WorkerExit

Monitor == MonitorWhile \/ MonitorDrain \/ MonitorUpdate \/ MonitorJoin

NextBatch == Worker \/ Monitor

SpecBatch == BatchInit /\ [][NextBatch]_vars

\* both threads are scheduled: the worker is an operating system thread and
\* the monitor loop sleeps for 0.1 s between two polls
SpecBatchFair == SpecBatch /\ WF_vars(Worker) /\ WF_vars(Monitor)

\* ------------------------------------------------------------------------
\* Properties
\* ------------------------------------------------------------------------
Items == DOMAIN report

Terminal(n) == report[n].kind # "none"

\* the text msg contains the text sub
Contains(msg, sub) ==
    \E k \in 0..(Len(msg) - Len(sub)) : SubSeq(msg, k + 1, k + Len(sub)) = sub

\* the result r carries every key of the result base, with the same value
Carries(r, base) == \A k \in DOMAIN base : Has(r, k) /\ r[k] = base[k]

\* the main window has run download_completed / download_error for item n
ShownCompleted(n) ==
    shell = "ReelDownloader" /\ reel_queue[n].status = <<"Completed">>
        /\ reel_queue[n].folder_path # NoText

ShownFailed(n) == shell = "ReelDownloader" /\ reel_queue[n].status = <<"Error">>

\* C1: for every item the engine named by options["downloader"] is invoked
\* first, the other engine is invoked only after the first one raised, and
\* then once (unless the Instaloader instance it needs cannot be created);
\* no item sees more than two invocations, and never the same engine twice.
C1_FallbackPolicy ==
    \A n \in Items :
        LET c == calls[n]
        IN /\ Len(c) <= 2
           /\ Len(c) >= 1 => c[1].engine = options.downloader
           /\ Len(c) = 2 => c[1].raised /\ c[2].engine \in Engines \ {c[1].engine}
           /\ (Len(c) >= 1 /\ ~c[1].raised) => Len(c) = 1
           /\ (Len(c) >= 1 /\ c[1].raised /\ Terminal(n)
                 /\ ~Contains(report[n].error, <<"instaloader import error">>))
                => Len(c) = 2

\* an item completed by the second engine after the first one raised
C1_Witness ==
    \E n \in Items :
        Len(calls[n]) = 2 /\ ~calls[n][2].raised /\ report[n].kind = "completed"

\* C2: when both engines failed for an item, the item is reported as failed
\* and the message is the first failure reason, " | ", the second failure
\* reason.
C2_BothFailedMessage ==
    \A n \in Items :
        (Len(calls[n]) = 2 /\ calls[n][2].raised /\ Terminal(n))
            => /\ report[n].kind = "error"
               /\ Contains(report[n].error,
                           calls[n][1].error \o <<" | ">> \o calls[n][2].error)

C4_TranscriptionBestEffort ==
    \A n \in Items :
        \A k \in DOMAIN tcalls[n] :
            (tcalls[n][k].raised /\ Terminal(n))
                => /\ report[n].kind = "completed"
                   /\ Carries(report[n].result, tcalls[n][k].result)

\* the result of the successful fetch of item n
Fetched(n) == calls[n][Len(calls[n])].result

FetchSucceeded(n) == Len(calls[n]) >= 1 /\ ~calls[n][Len(calls[n])].raised

\* C5: with transcribe on, every item whose fetch succeeded has had exactly
\* one transcription call when it is reported, made with the fetch's result
\* and the item's number; with transcribe off there is never a call.
C5_TranscriptionOnce ==
    \A n \in Items :
        /\ ~options.transcribe => tcalls[n] = <<>>
        /\ (options.transcribe /\ FetchSucceeded(n) /\ Terminal(n))
              => /\ Len(tcalls[n]) = 1
                 /\ tcalls[n][1].n = n
                 /\ tcalls[n][1].result = Fetched(n)

C7_AudioForTranscript ==
    (pc = "called" /\ options.transcribe /\ ~call.out.raised)
        => LET asIf == download_reel(call.engine, idx, loader,
                                     [options EXCEPT !.audio = TRUE], call.env, {})
           IN /\ call.out.result = asIf.result
              /\ call.out.disk = asIf.disk

\* C8: an adapter call whose video transfer (and metadata query) succeeded
\* does not raise when the thumbnail or the caption fails, and its result
\* has every key of the failure-free result except those of the failed
\* artifact.
C8_OptionalArtifacts ==
    (pc = "called" /\ call.env.avail /\ call.env.video /\ call.env.meta /\ call.env.audio)
        => LET good == download_reel(call.engine, idx, loader, options,
                                     AllGood(EngineEnv), {}).result
               lost == (IF call.env.thumbUrl /\ call.env.thumb THEN {} ELSE {"thumbnail_path"})
                       \cup (IF call.env.caption THEN {} ELSE {"caption_path", "caption"})
           IN /\ ~call.out.raised
              /\ \A k \in (DOMAIN good) \ lost :
                    Has(call.out.result, k) /\ call.out.result[k] = good[k]

\* the result r without the key k
Without(r, k) == [x \in (DOMAIN r) \ {k} |-> r[x]]

\* the adapter call under study reaches the video transfer
VideoAttempted ==
    call.engine = "yt-dlp" \/ options.video \/ options.audio \/ options.transcribe

\* C9: a failed video transfer makes the adapter call raise, with no result;
\* a failed audio extraction changes nothing but the audio_path key and the
\* audio file: the call raises or returns as it does when the extraction
\* succeeds, with the same other keys.
C9_VideoFatalAudioNot ==
    pc = "called" =>
        LET fine == download_reel(call.engine, idx, loader, options,
                                  [call.env EXCEPT !.audio = TRUE], {})
        IN /\ (call.env.avail /\ ~call.env.video /\ VideoAttempted)
                 => /\ call.out.raised
                    /\ call.out.result = EmptyResult
                    /\ \/ Contains(call.out.error, <<"Video download failed: ">>)
                       \/ Contains(call.out.error, <<"yt-dlp returned non-zero exit status">>)
           /\ ~call.env.audio
                 => /\ call.out.raised = fine.raised
                    /\ call.out.error = fine.error
                    /\ ~Has(call.out.result, "audio_path")
                    /\ call.out.result = Without(fine.result, "audio_path")

\* an adapter call with the audio switch on whose video was fetched and whose
\* audio extraction failed
C9_Witness ==
    /\ pc = "called"
    /\ options.audio /\ options.video
    /\ ~call.env.audio
    /\ ~call.out.raised
    /\ Has(call.out.result, "video_path")
    /\ ~Has(call.out.result, "audio_path")

\* C10 (as stated): the run-level summary is computed only when every item
\* has reached a terminal state.
C10_SummaryAfterLastItem ==
    summary.computed => \A n \in Items : Terminal(n)

\* C10 (amended): the items are started and ended one at a time in input
\* order; a run that was neither stopped nor failed before its first item
\* ends with every item terminal, failed ones included; the summary is
\* computed after the worker has left the loop, with no item in flight and
\* every terminal item shown, and counts the completed items; items are
\* then without a terminal state only when the run failed before its first
\* item or was stopped.
C10_BatchOrder ==
    /\ \A i \in DOMAIN trace :
          trace[i] = [ev |-> IF i % 2 = 1 THEN "start" ELSE "end",
                      item |-> (i + 1) \div 2]
    /\ (pc = "finished" /\ is_running /\ run_error = NoText)
          => \A n \in Items : Terminal(n)
    /\ summary.computed
          => /\ pc = "finished"
             /\ Len(trace) % 2 = 0
             /\ \A n \in Items : n <= Len(trace) \div 2 <=> Terminal(n)
             /\ summary.total = Count(shell)
             /\ summary.completed = CompletedReports
             /\ shell = "ReelDownloader"
                   => \A n \in Items :
                         /\ report[n].kind = "completed" <=> ShownCompleted(n)
                         /\ report[n].kind = "error" <=> ShownFailed(n)
             /\ \/ \A n \in Items : Terminal(n)
                \/ ~is_running
                \/ run_error # NoText

\* a two-item run whose summary is computed after the first item failed and
\* the second one completed
C10_Witness ==
    /\ summary.computed
    /\ Len(report) >= 2
    /\ report[1].kind = "error"
    /\ report[2].kind = "completed"
    /\ summary.completed >= 1

\* the number of items the worker has started
Started == (Len(trace) + 1) \div 2

\* the terminal signal of item n has been emitted: it is queued, or the main
\* window has run its slot
TerminalSignalEmitted(n) ==
    \/ ShownCompleted(n)
    \/ ShownFailed(n)
    \/ \E i \in DOMAIN signals :
          signals[i].url = n /\ signals[i].sig \in {"completed", "error"}

\* the worker is inside the processing of an item
InFlight(p) == p \in {"primary", "transcribe", "fallback", "fallback_transcribe"}

\* C11: in the desktop worker a stop request leaves the item in flight
\* alone: the worker leaves an item only by reporting it, stopped or not,
\* so that whenever it is between items or done every started item has been
\* reported with its terminal signal emitted; after the request no item is
\* started; the items that were not started keep their initial state.
C11_CooperativeStop ==
    /\ [](shell = "ReelDownloader" =>
            /\ pc \in {"loop", "finished"}
                  => /\ Len(trace) % 2 = 0
                     /\ \A n \in Items :
                           n <= Started => Terminal(n) /\ TerminalSignalEmitted(n)
            /\ \A n \in Items :
                  n > Started => report[n] = NoReport /\ reel_queue[n] = NewReelItem)
    /\ [][shell = "ReelDownloader" =>
             /\ ~is_running
                   => \/ trace' = trace
                      \/ /\ Len(trace') = Len(trace) + 1
                         /\ trace'[Len(trace')].ev = "end"
             /\ (InFlight(pc) /\ ~InFlight(pc'))
                   => /\ trace' = Append(trace, [ev |-> "end", item |-> idx])
                      /\ report'[idx].kind # "none"
                      /\ \E i \in DOMAIN signals' :
                            /\ signals'[i].url = idx
                            /\ signals'[i].sig \in {"completed", "error"}]_vars

\* a stopped run of the desktop worker that has ended with its first item
\* reported and shown, and a later item never started
C11_Witness ==
    /\ shell = "ReelDownloader"
    /\ ~is_running
    /\ pc = "finished"
    /\ signals = <<>>
    /\ Started = 1
    /\ ShownCompleted(1) \/ ShownFailed(1)
    /\ \E n \in Items : n > 1 /\ reel_queue[n].status = <<"Pending">>

\* the terminal values of ReelItem.status
TerminalStatus == {<<"Completed">>, <<"Error">>}

\* C12: an item's status never returns to Pending, and once it is Completed
\* or Error no later event changes it or lowers the item's progress.
C12_StatusMachine ==
    [][\A n \in DOMAIN reel_queue :
          /\ reel_queue'[n].status = <<"Pending">>
                => reel_queue[n].status = <<"Pending">>
          /\ reel_queue[n].status \in TerminalStatus
                => /\ reel_queue'[n].status = reel_queue[n].status
                   /\ reel_queue'[n].progress >= reel_queue[n].progress]_vars

\* C13: the progress events emitted for one item's URL carry percent values
\* in 0..100 that never decrease, in the order of emission (the order of the
\* signal queue).
C13_ProgressMonotone ==
    \A i, j \in DOMAIN signals :
        (signals[i].sig = "progress" /\ signals[j].sig = "progress"
            /\ signals[i].url # 0 /\ signals[i].url = signals[j].url /\ i < j)
            => /\ signals[i].percent \in 0..100
               /\ signals[j].percent \in 0..100
               /\ signals[i].percent <= signals[j].percent

\* the positions of the marker m in the parsed path: a segment m with a
\* slash before it and a slash after it
MarkerAt(parsed, m) ==
    {i \in 1..(Len(parsed.segs) - 1) : parsed.segs[i] = m /\ (i > 1 \/ parsed.leading)}

First(S) == CHOOSE i \in S : \A j \in S : i <= j

HostOk(parsed) == ~parsed.raised /\ parsed.netloc \in {"instagram.com", "www.instagram.com"}

C15_CurrentWorkspace ==
    /\ ~set_up => session_folder = 0
    /\ session_call.op = "get" => session_call.value = session_folder
    /\ session_folder = returned
    /\ session_folder # 0 => session_folder \in Timestamps /\ fs[session_folder].exists

\* C16: a call of setup_session_folder that finds the directory of its
\* timestamp in place does not raise, returns that same path, and leaves
\* every directory and its contents as they were.
C16_SetupIdempotent ==
    [][(session_call'.op = "setup" /\ session_call' # session_call
           /\ session_call'.before.exists)
          => /\ ~session_call'.raised
             /\ session_call'.value = now
             /\ session_folder' = now
             /\ fs' = fs]_vars

\* a second setup within the same second has found the first one's
\* directory with a reel folder in it, and a reel folder is still there
C16_Witness ==
    /\ session_call.op = "setup"
    /\ session_call.before.exists
    /\ session_call.before.files # {}
    /\ ~session_call.raised
    /\ fs[session_folder] = session_call.before

\* every candidate model of the cleanup pass fails
AllBackendsFail(env) == \A i \in DOMAIN llm_models : env.reply[i] \in {"raise", "none"}

\* C17: once the speech-to-text step of the remote pipeline has succeeded,
\* the pipeline does not raise and its final transcript is not empty; when
\* every candidate model fails, the final transcript is the raw transcript.
C17_CleanupFallback ==
    (groq_call.done /\ groq_env.whisper)
        => /\ ~groq_call.raised
           /\ groq_call.final_transcription # NoText
           /\ (groq_env.enable_post_processing /\ AllBackendsFail(groq_env))
                 => groq_call.final_transcription = groq_call.raw_transcription

\* C18: after load_settings, when the file was not there or reading or
\* parsing it raised, the dictionary in memory is empty; the call does not
\* raise.
C18_LoadFailureEmpties ==
    (/\ settings_call.op = "load"
     /\ \/ ~settings_call.found
        \/ settings_call.env = "read raises"
        \/ ~settings_file.valid)
        => settings = EmptyResult /\ ~settings_call.raised

\* the last call was save_settings or set_setting
Saved == settings_call.op \in {"save", "set"}

\* C19 as stated: after save_settings or set_setting the file holds exactly
\* the dictionary in memory, a following load_settings gives that same
\* dictionary, every key just saved has the value just saved, and the call
\* has not raised.
C19_RoundTrip ==
    Saved
        => /\ ~settings_call.raised
           /\ settings_file = [exists |-> TRUE, valid |-> TRUE, content |-> settings]
           /\ load(settings, settings_file, TRUE) = settings
           /\ \A k \in DOMAIN settings_call.arg :
                 Get(settings, k, "default") = settings_call.arg[k]

\* C19 amended: save_settings and set_setting never raise and merge the
\* saved dictionary into the one in memory, later values overriding earlier
\* ones.  When the write works and every value can be encoded, the file
\* holds the JSON image of the dictionary in memory (a tuple is stored as a
\* list) and a following load_settings gives that image.  When open raises
\* the file is left as it was; when the writing raises, or a value cannot
\* be encoded, the file is left truncated and a following load_settings
\* gives the empty dictionary.  get_setting returns the value in memory.
C19_RoundTripWhenWritten ==
    /\ [][(settings_call' # settings_call /\ settings_call'.op \in {"save", "set"})
            => LET arg == settings_call'.arg
                   env == settings_call'.env
               IN /\ ~settings_call'.raised
                  /\ DOMAIN settings' = (DOMAIN settings) \cup (DOMAIN arg)
                  /\ \A k \in DOMAIN arg : settings'[k] = arg[k]
                  /\ \A k \in (DOMAIN settings) \ (DOMAIN arg) : settings'[k] = settings[k]
                  /\ (env = "ok" /\ Serialisable(settings'))
                        => /\ settings_file'.exists /\ settings_file'.valid
                           /\ DOMAIN settings_file'.content = DOMAIN settings'
                           /\ \A k \in DOMAIN settings' :
                                 settings_file'.content[k] = json_value(settings'[k])
                           /\ load(settings', settings_file', TRUE) = settings_file'.content
                  /\ env = "open raises" => settings_file' = settings_file
                  /\ (env = "write raises" \/ (env = "ok" /\ ~Serialisable(settings')))
                        => /\ settings_file'.exists /\ ~settings_file'.valid
                           /\ load(settings', settings_file', TRUE) = EmptyResult]_vars
    /\ [](settings_call.op = "get"
            => \A k \in DOMAIN settings_call.arg :
                  settings_call.value = Get(settings, k, "default"))

\* a partial dictionary has been saved over a dictionary that held another
\* key, the write worked, and the file holds both keys as in memory
C19_Witness ==
    /\ settings_call.op = "save"
    /\ settings_call.env = "ok"
    /\ DOMAIN settings_call.arg # {}
    /\ DOMAIN settings = Keys
    /\ DOMAIN settings_call.arg # Keys
    /\ settings_file = [exists |-> TRUE, valid |-> TRUE, content |-> settings]

\* both engines were found unusable for item n: both fetches raised, or the
\* fetch of yt-dlp raised and the Instaloader instance could not be created
BothEnginesFailed(n) ==
    \/ Len(calls[n]) = 2 /\ calls[n][1].raised /\ calls[n][2].raised
    \/ /\ Len(calls[n]) = 1
       /\ calls[n][1].engine = "yt-dlp"
       /\ calls[n][1].raised
       /\ Contains(report[n].error, <<"instaloader import error">>)

\* C20: an engine failure reaches the caller only when both engines failed:
\* an item is reported as failed only after both engines were found
\* unusable for it (or the session folder could not be made), and a run is
\* not failed by the initialisation of Instaloader while yt-dlp has not
\* been tried.
C20_SurfacedOnlyIfBothFail ==
    /\ \A n \in Items :
          report[n].kind = "error"
              => \/ BothEnginesFailed(n)
                 \/ Contains(report[n].error, <<"session folder error">>)
    /\ Contains(run_error, <<"instaloader import error">>)
          => \E n \in Items : Len(calls[n]) >= 1 /\ calls[n][1].raised

\* the option that asks for the artifact behind a key of the result
Requested(opts, k) ==
    CASE k = "video_path" -> opts.video
      [] k = "thumbnail_path" -> opts.thumbnail
      [] k = "audio_path" -> opts.audio
      [] k \in {"caption_path", "caption"} -> opts.caption
      [] OTHER -> TRUE

\* the file behind a path key of the result
Artifact(n, k) ==
    CASE k = "video_path" -> File(n, "video")
      [] k = "thumbnail_path" -> File(n, "thumbnail")
      [] k = "audio_path" -> File(n, "audio")
      [] OTHER -> File(n, "caption")

PathKeys == {"video_path", "thumbnail_path", "audio_path", "caption_path"}

\* C21: with every network and file step succeeding, the adapter that was
\* called and the other adapter, given the same item number and options,
\* return results with the same keys: folder_path, title, and each artifact
\* key exactly when the artifact was requested; a path key names a file
\* that the call has written.
C21_Interchangeable ==
    (pc = "called" /\ Faults(call.env) = 0)
        => LET a == instaloader_download_reel(idx, TRUE, options, call.env, {})
               b == yt_dlp_download_reel(idx, options, call.env, {})
           IN /\ ~a.raised /\ ~b.raised
              /\ DOMAIN a.result = DOMAIN b.result
              /\ \A k \in PathKeys \cup {"caption", "folder_path", "title"} :
                    Has(call.out.result, k) <=> Requested(options, k)
              /\ \A k \in PathKeys :
                    Has(call.out.result, k) => Artifact(idx, k) \in call.out.disk

\* C22: a run never obtains a workspace that an earlier run obtained: the
\* directory a returning setup_session_folder call hands out did not exist
\* before the call, so it holds no item folder of another run.
C22_WorkspaceNeverReused ==
    (session_call.op = "setup" /\ ~session_call.raised)
        => /\ ~session_call.before.exists
           /\ session_call.before.files = {}

\* C23: within a run every file is created in the numbered subfolder of the
\* item in flight: a step creates files only while an item is processed and
\* only in that item's subfolder, every attempt of item n (primary or
\* fallback) reports the subfolder n, and no subfolder holds a file before
\* its item was started.
C23_OwnSubfolder ==
    /\ [](shell \in Shells =>
            /\ \A n \in Items : \A i \in DOMAIN calls[n] :
                  Has(calls[n][i].result, "folder_path")
                      => calls[n][i].result["folder_path"] = <<n, "folder">>
            /\ \A f \in disk : f[1] \in Items /\ f[1] <= Started)
    /\ [][(shell \in Shells)
             => \A f \in (disk' \ disk) : InFlight(pc) /\ f[1] = idx]_vars

\* both items of a run have files in their subfolders, and the first one
\* was fetched by the fallback engine after the primary attempt
C23_Witness ==
    /\ shell \in {"ReelDownloader", "BatchDownloader"}
    /\ Len(calls[1]) = 2
    /\ ~calls[1][2].raised
    /\ \E f \in disk : f[1] = 1
    /\ \E f \in disk : f[1] = 2

\* C24: once the model is loaded, no call replaces the model object or
\* runs the loading block again; load_whisper_model does not raise, and a
\* failed load leaves the model unset; with the model unset,
\* transcribe_audio_from_reel returns without raising and records the
\* "Transcription skipped" text as the transcript.
C24_LoadMemoized ==
    /\ [][model_obj # 0 => model_obj' = model_obj /\ attempts' = attempts]_vars
    /\ [](transcriber_call.op = "load"
            => /\ ~transcriber_call.raised
               /\ (transcriber_call.unset /\ ~transcriber_call.ok) => model_obj = 0
               /\ (transcriber_call.unset /\ transcriber_call.ok) => model_obj # 0)
    /\ []((transcriber_call.op = "transcribe" /\ transcriber_call.unset)
            => /\ ~transcriber_call.raised
               /\ Has(transcriber_call.result, "transcript")
               /\ transcriber_call.result["transcript"] = ModelNotLoaded
               /\ ~Has(transcriber_call.result, "transcript_path"))

\* load_whisper_model has been called again on a loaded model, after a
\* failed and a successful load
C24_Witness ==
    /\ transcriber_call.op = "load"
    /\ ~transcriber_call.unset
    /\ model_obj = 2
    /\ attempts = 2

\* the call made for the i-th entry of the list failed
Fails(env, i) == env.reply[i] \in {"raise", "none"}

\* C25: the cleanup pass calls the candidates in list order, goes on to the
\* next one only after a failure, stops at the first one that answers, whose
\* answer is the result, and returns the raw transcript only after it has
\* called every entry of the list and every call has failed, whatever the
\* three names in the list are.
C25_PriorityOrder ==
    (/\ groq_call.done
     /\ groq_env.whisper
     /\ groq_env.enable_post_processing
     /\ groq_env.raw # NoText)
        => LET c == groq_call.called
               last == c[Len(c)]
           IN /\ Len(c) >= 1
              /\ \A i \in DOMAIN c : c[i] = i
              /\ \A i \in DOMAIN c : i < Len(c) => Fails(groq_env, i)
              /\ Fails(groq_env, last)
                    => /\ Len(c) = Len(groq_env.llm_models)
                       /\ groq_call.final_transcription = groq_call.raw_transcription
              /\ groq_env.reply[last] = "text"
                    => groq_call.final_transcription
                          = <<"cleaned by ", groq_env.llm_models[last]>>

\* the re-encoding of an oversized file fails
EncodingFails(env) ==
    /\ env.size > max_size_mb
    /\ env.encode # "ok" \/ (env.pydub /\ env.duration = 0)

\* C26: a file at or below the ceiling is uploaded as it is; a compressed
\* file that is uploaded was encoded with a bitrate within 32..128, the
\* clamped ceiling/duration when the duration is known and not zero; when
\* the re-encoding fails the original file is uploaded; after the call no
\* compressed file is left and the original file is still there.
C26_CompressionPolicy ==
    audio_call.done
        => /\ audio_env.size <= max_size_mb
                 => audio_call.uploaded = "original" /\ audio_call.bitrate = 0
           /\ audio_call.uploaded = "compressed"
                 => /\ audio_env.size > max_size_mb
                    /\ audio_call.bitrate \in 32..128
                    /\ (audio_env.duration # 0 /\ (audio_env.pydub \/ audio_env.known))
                          => audio_call.bitrate
                                = Max2(32, Min2(200704 \div audio_env.duration, 128))
           /\ EncodingFails(audio_env) => audio_call.uploaded = "original"
           /\ "compressed" \notin audio_call.files
           /\ "original" \in audio_call.files

\* the identifier the validator recognised in an accepted text: the segment
\* after the first /reel/ of the path or, without one, after its first /p/
Identifier(u) ==
    LET parsed == urlparse(u)
        m == IF find_marker(parsed, "reel", 1) # 0 THEN "reel" ELSE "p"
    IN parsed.segs[find_marker(parsed, m, 1) + 1]

\* the text holds a marker: a piece "reel" or "p" between two slashes
HasMarker(u) ==
    \E i \in 2..(Len(Pieces(u)) - 1) : Pieces(u)[i] \in {<<"reel">>, <<"p">>}

\* C30: for every text that is_valid_instagram_url accepts,
\* _extract_shortcode returns a non-empty shortcode equal to the identifier
\* the validator recognised, so that the adapter does not raise "Invalid
\* Instagram URL" for it; for a text with neither marker it returns None.
C30_ExtractorAgrees ==
    /\ (extracted.done /\ verdict.value) =>
          /\ ~extracted.none
          /\ extracted.text # <<>>
          /\ extracted.text = <<Identifier(url)>>
    /\ (extracted.done /\ ~HasMarker(url)) => extracted.none
    /\ (engine.invoked /\ is_valid_instagram_url(url).value) => ~engine.raised

\* C27: a text that is_valid_instagram_url rejects is refused by every
\* shell, every item handed to an orchestrator (and so to an engine) has a
\* text the validator accepts, and no engine failure that a shell shows is
\* the adapter's "Invalid Instagram URL".
C27_ValidatedAtBoundary ==
    /\ entry.shell # "none" =>
          /\ entry.refused <=> ~is_valid_instagram_url(url).value
          /\ entry.handed <=> ~entry.refused
    /\ engine.invoked => entry.handed /\ is_valid_instagram_url(url).value
    /\ engine.invoked => engine.surfaced = <<>>

\* the signals that a step of the worker has queued
Emitted ==
    IF Len(signals') >= Len(signals)
    THEN SubSeq(signals', Len(signals) + 1, Len(signals'))
    ELSE <<>>

\* the terminal signals of item n in a sequence of signals
TerminalIn(sigs, n) ==
    {i \in DOMAIN sigs : sigs[i].url = n /\ sigs[i].sig \in {"completed", "error"}}

\* C28: in the desktop worker every item whose processing has ended has had
\* exactly one terminal signal (download_completed or error_occurred for its
\* URL), emitted by the step that ends its processing; the item in flight
\* and the items that were never started have had none; so the terminal
\* signals of a run are as many as the items started.
C28_ExactlyOneTerminal ==
    /\ [](shell = "ReelDownloader" =>
            \A n \in Items :
               /\ Cardinality(TerminalIn(signals, n))
                     + (IF ShownCompleted(n) \/ ShownFailed(n) THEN 1 ELSE 0) <= 1
               /\ TerminalSignalEmitted(n)
                     <=> (n < Started \/ (n = Started /\ ~InFlight(pc)))
               /\ TerminalSignalEmitted(n) <=> Terminal(n)
               /\ n > Started => \A i \in DOMAIN signals : signals[i].url # n)
    /\ [][(shell = "ReelDownloader")
             => \A n \in Items :
                   /\ Cardinality(TerminalIn(Emitted, n))
                         = IF InFlight(pc) /\ ~InFlight(pc') /\ n = idx THEN 1 ELSE 0
                   /\ \A i \in TerminalIn(Emitted, n) :
                         Emitted[i].sig = report'[n].kind /\ report[n] = NoReport]_vars

\* a run whose first item was completed and shown and whose second item
\* failed, its error signal still queued
C28_Witness ==
    /\ shell = "ReelDownloader"
    /\ pc \in {"loop", "finished"}
    /\ Started = 2
    /\ ShownCompleted(1)
    /\ TerminalIn(signals, 2) # {}
    /\ report[2].kind = "error"

\* C29: the monitor never counts more completed URLs than the batch has,
\* each URL at most once, so that every value it computes for the overall
\* progress bar lies within [0,1]; the monitor loop ends, and when it has
\* ended every event that was put on the queue has been taken from it.
C29_MonitorCount ==
    /\ [](monitor # "none" =>
            /\ completed_count <= Len(batch_env.outcomes)
            /\ \A u \in DOMAIN counted : counted[u] <= 1
            /\ overall_progress_value.num <= overall_progress_value.den
            /\ monitor \in {"join", "done"}
                  => progress_queue = <<>> /\ drained = put_count)
    /\ <>(monitor = "done" /\ drained = Len(download_batch(batch_env)))

====
